---- MODULE Spec2Model ----
(***************************************************************************)
(* docweave-hub: the repository analysis pipeline of src/lib/analyzer.js  *)
(* (class CodeAnalyzer, the clone-based version that starts at line 146). *)
(*                                                                         *)
(* Strings are sequences of one-character strings, so that startsWith,     *)
(* endsWith, includes, split, extname and toLowerCase are computed the way *)
(* the JavaScript computes them.  A file's content is a record of what the *)
(* extractors look at (length, line count, marker substrings, the parsed   *)
(* manifest).                                                              *)
(***************************************************************************)
EXTENDS Integers, Sequences, FiniteSets, TLC

(***************************************************************************)
(* Bounds of the model.                                                    *)
(***************************************************************************)
\* The wall clock (Date.now()) takes the values 0..MaxTime.
MaxTime == 1

\* The calls of analyzeRepository over a behaviour: a pair, which is what the
\* properties about overlapping calls need.
Runs == {1, 2}

(***************************************************************************)
(* String helpers (JavaScript String.prototype and path).                  *)
(***************************************************************************)
StartsWith(s, p) == Len(s) >= Len(p) /\ SubSeq(s, 1, Len(p)) = p

EndsWith(s, p) == Len(s) >= Len(p) /\ SubSeq(s, Len(s) - Len(p) + 1, Len(s)) = p

Includes(s, p) == \E i \in 1..(Len(s) - Len(p) + 1) : SubSeq(s, i, i + Len(p) - 1) = p

LowerChar(c) ==
    CASE c = "A" -> "a" [] c = "B" -> "b" [] c = "C" -> "c" [] c = "D" -> "d"
      [] c = "E" -> "e" [] c = "F" -> "f" [] c = "G" -> "g" [] c = "H" -> "h"
      [] c = "I" -> "i" [] c = "J" -> "j" [] c = "K" -> "k" [] c = "L" -> "l"
      [] c = "M" -> "m" [] c = "N" -> "n" [] c = "O" -> "o" [] c = "P" -> "p"
      [] c = "Q" -> "q" [] c = "R" -> "r" [] c = "S" -> "s" [] c = "T" -> "t"
      [] c = "U" -> "u" [] c = "V" -> "v" [] c = "W" -> "w" [] c = "X" -> "x"
      [] c = "Y" -> "y" [] c = "Z" -> "z" [] OTHER -> c

ToLowerCase(s) == [i \in 1..Len(s) |-> LowerChar(s[i])]

\* The largest index of character c in s, 0 when there is none.
LastIndexOf(s, c) ==
    LET hits == {i \in 1..Len(s) : s[i] = c}
    IN  IF hits = {} THEN 0 ELSE CHOOSE i \in hits : \A j \in hits : j <= i

\* The smallest index of character c in s, 0 when there is none.
IndexOf(s, c) ==
    LET hits == {i \in 1..Len(s) : s[i] = c}
    IN  IF hits = {} THEN 0 ELSE CHOOSE i \in hits : \A j \in hits : i <= j

\* path.extname: from the last "." of the name, "" when there is none or
\* when it is the name's first character.
ExtName(name) ==
    LET d == LastIndexOf(name, ".")
    IN  IF d <= 1 THEN <<>> ELSE SubSeq(name, d, Len(name))

\* path.join(relativePath, name) for a relativePath that is "" or a path.
PathJoin(rel, name) == IF rel = <<>> THEN name ELSE rel \o <<"/">> \o name

\* s.split(sep) for a one-character separator.
RECURSIVE Split(_, _)
Split(s, sep) ==
    LET i == IndexOf(s, sep)
    IN  IF i = 0 THEN <<s>>
        ELSE <<SubSeq(s, 1, i - 1)>> \o Split(SubSeq(s, i + 1, Len(s)), sep)

\* parts.join(sep)
RECURSIVE JoinWith(_, _)
JoinWith(parts, sep) ==
    IF parts = <<>> THEN <<>>
    ELSE IF Len(parts) = 1 THEN parts[1]
    ELSE parts[1] \o <<sep>> \o JoinWith(Tail(parts), sep)

\* array.slice(0, n)
Take(s, n) == SubSeq(s, 1, IF Len(s) < n THEN Len(s) ELSE n)

\* array.filter(pred), for pred given as the set of elements it keeps.
RECURSIVE FilterSeq(_, _)
FilterSeq(s, keep) ==
    IF s = <<>> THEN <<>>
    ELSE (IF s[1] \in keep THEN <<s[1]>> ELSE <<>>) \o FilterSeq(Tail(s), keep)

\* The elements of a sequence, as a set.
Range(s) == {s[i] : i \in 1..Len(s)}

\* The decimal digits of a natural number (template-literal formatting).
Digit(n) ==
    CASE n = 0 -> "0" [] n = 1 -> "1" [] n = 2 -> "2" [] n = 3 -> "3" [] n = 4 -> "4"
      [] n = 5 -> "5" [] n = 6 -> "6" [] n = 7 -> "7" [] n = 8 -> "8" [] n = 9 -> "9"

RECURSIVE NumberToString(_)
NumberToString(n) ==
    IF n < 10 THEN <<Digit(n)>> ELSE NumberToString(n \div 10) \o <<Digit(n % 10)>>

RECURSIVE SumSeq(_)
SumSeq(s) == IF s = <<>> THEN 0 ELSE s[1] + SumSeq(Tail(s))

\* Math.round of the non-negative rational num/den (den > 0): half rounds up.
RoundDiv(num, den) == (2 * num + den) \div (2 * den)

(***************************************************************************)
(* File names and URLs used by the repositories of the model.              *)
(***************************************************************************)
N_package_json == <<"p", "a", "c", "k", "a", "g", "e", ".", "j", "s", "o", "n">>
N_requirements_txt == <<"r", "e", "q", "u", "i", "r", "e", "m", "e", "n", "t", "s", ".", "t", "x", "t">>
N_pom_xml == <<"p", "o", "m", ".", "x", "m", "l">>
N_yarn_lock == <<"y", "a", "r", "n", ".", "l", "o", "c", "k">>
N_package_lock_json == <<"p", "a", "c", "k", "a", "g", "e", "-", "l", "o", "c", "k", ".", "j", "s", "o", "n">>
N_README_md == <<"R", "E", "A", "D", "M", "E", ".", "m", "d">>
N_index_js == <<"i", "n", "d", "e", "x", ".", "j", "s">>
N_main_py == <<"m", "a", "i", "n", ".", "p", "y">>
N_openapi_yaml == <<"o", "p", "e", "n", "a", "p", "i", ".", "y", "a", "m", "l">>
N_src == <<"s", "r", "c">>
N_dot_git == <<".", "g", "i", "t">>
N_HEAD == <<"H", "E", "A", "D">>
N_dot_gitattributes == <<".", "g", "i", "t", "a", "t", "t", "r", "i", "b", "u", "t", "e", "s">>
N_dot_env == <<".", "e", "n", "v">>

\* The repository URLs a caller passes: two owners of a repository "app" (one
\* given with .git, one with a trailing slash) and a repository "svc".
URL_acme_app == <<"h", "t", "t", "p", "s", ":", "/", "/", "h", ".", "i", "o", "/", "a", "c", "m", "e", "/", "a", "p", "p", ".", "g", "i", "t">>
URL_zeta_app == <<"h", "t", "t", "p", "s", ":", "/", "/", "h", ".", "i", "o", "/", "z", "e", "t", "a", "/", "a", "p", "p", "/">>
URL_acme_svc == <<"h", "t", "t", "p", "s", ":", "/", "/", "h", ".", "i", "o", "/", "a", "c", "m", "e", "/", "s", "v", "c">>

Urls == <<URL_acme_app, URL_zeta_app, URL_acme_svc>>

UrlIds == 1..Len(Urls)

S_git == <<".", "g", "i", "t">>
S_unknown_repo == <<"u", "n", "k", "n", "o", "w", "n", "-", "r", "e", "p", "o">>
S_tempDir == <<"/", "t", "m", "p", "/", "d", "o", "c", "w", "e", "a", "v", "e", "-", "a", "n", "a", "l", "y", "s", "i", "s">>

\* extractRepoName: repoUrl.match(/\/([^\/]+?)(?:\.git)?(?:\/)?$/), the
\* first group, or "unknown-repo" when the pattern does not match.
extractRepoName(repoUrl) ==
    LET s1   == IF repoUrl # <<>> /\ repoUrl[Len(repoUrl)] = "/"
                THEN SubSeq(repoUrl, 1, Len(repoUrl) - 1) ELSE repoUrl
        cut  == LastIndexOf(s1, "/")
        seg  == SubSeq(s1, cut + 1, Len(s1))
    IN  IF cut = 0 \/ seg = <<>> THEN S_unknown_repo
        ELSE IF EndsWith(seg, S_git) /\ Len(seg) > Len(S_git)
             THEN SubSeq(seg, 1, Len(seg) - Len(S_git))
             ELSE seg

\* The basename of clonePath = path.join(tempDir, `${repoName}-${timestamp}`).
CloneDirName(repoName, timestamp) == repoName \o <<"-">> \o NumberToString(timestamp)

\* clonePath of analyzeRepository.
ClonePath(repoName, timestamp) == PathJoin(S_tempDir, CloneDirName(repoName, timestamp))

(***************************************************************************)
(* The remote repositories: what a successful clone puts into the scratch  *)
(* directory.  An entry of a directory is a record                         *)
(*   name, kind ("file" | "dir" | "symlink"), size, content, children;     *)
(* readdir returns a directory's entries in the order of the sequence.     *)
(* A content is a record                                                   *)
(*   readable : whether fs.readFile(fullPath, 'utf8') succeeds             *)
(*   length   : content.length                                             *)
(*   lineCount: content.split('\n').length                                 *)
(*   lines    : the lines of a line-oriented manifest (requirements.txt)   *)
(*   markers  : the substrings content.includes(...) is asked for          *)
(*   json     : JSON.parse(content): kind "SyntaxError" (it throws),       *)
(*              "null", or "object" with the manifest's two dependency     *)
(*              maps (their keys in declared order, every value a          *)
(*              non-empty version string; hasDeps/hasDev: the map is       *)
(*              present)                                                   *)
(***************************************************************************)
\* JSON.parse threw.
NoJson ==
    [kind |-> "SyntaxError", hasDeps |-> FALSE, dependencies |-> <<>>,
     hasDev |-> FALSE, devDependencies |-> <<>>]

\* JSON.parse returned null (the text is the JSON literal null).
NullJson ==
    [kind |-> "null", hasDeps |-> FALSE, dependencies |-> <<>>,
     hasDev |-> FALSE, devDependencies |-> <<>>]

Text(len, n, marks) ==
    [readable |-> TRUE, length |-> len, lineCount |-> n, lines |-> <<>>,
     markers |-> marks, json |-> NoJson]

Manifest(len, deps, devDeps) ==
    [readable |-> TRUE, length |-> len, lineCount |-> 1, lines |-> <<>>, markers |-> {},
     json |-> [kind |-> "object", hasDeps |-> TRUE, dependencies |-> deps,
               hasDev |-> TRUE, devDependencies |-> devDeps]]

Requirements(len, ls) ==
    [readable |-> TRUE, length |-> len, lineCount |-> Len(ls), lines |-> ls,
     markers |-> {}, json |-> NoJson]

\* A file fs.readFile rejects for: the stand-in for a file above the string
\* limit of the runtime, a permission or an I/O error.
Unreadable(len) ==
    [readable |-> FALSE, length |-> len, lineCount |-> 0, lines |-> <<>>,
     markers |-> {}, json |-> NoJson]

File(n, sz, c) == [name |-> n, kind |-> "file", size |-> sz, content |-> c, children |-> <<>>]

Dir(n, es) == [name |-> n, kind |-> "dir", size |-> 0, content |-> Text(0, 1, {}), children |-> es]

L_django == <<"D", "j", "a", "n", "g", "o", "=", "=", "4", ".", "2">>
L_comment == <<"#", " ", "d", "e", "v">>
L_requests == <<"r", "e", "q", "u", "e", "s", "t", "s", " ", ">", "=", "2">>

GitDir == Dir(N_dot_git, <<File(N_HEAD, 23, Text(23, 2, {}))>>)

\* acme/app: the scenario of the specification's section 8.
Tree_acme_app ==
    << GitDir,
       File(N_package_json, 70, Manifest(70, << <<"r", "e", "a", "c", "t">> >>, << <<"j", "e", "s", "t">> >>)),
       File(N_README_md, 200, Text(200, 6, {})),
       Dir(N_src, <<File(N_index_js, 120, Text(120, 10, {}))>>) >>

\* zeta/app: a repository whose every entry the walker skips.
Tree_zeta_app ==
    << GitDir, File(N_dot_gitattributes, 12, Text(12, 2, {})) >>

\* acme/svc: a Python service with an OpenAPI file and a README that
\* cannot be read.
Tree_acme_svc ==
    << GitDir,
       File(N_requirements_txt, 40, Requirements(40, <<L_django, L_comment, L_requests>>)),
       File(N_README_md, 9000, Unreadable(9000)),
       File(N_openapi_yaml, 300, Text(300, 12, {"openapi:"})),
       File(N_main_py, 90, Text(90, 7, {})) >>

Trees == <<Tree_acme_app, Tree_zeta_app, Tree_acme_svc>>

(***************************************************************************)
(* File Walker: scanDirectory and shouldSkipFile.                          *)
(***************************************************************************)
MaxDepth == 8

S_dot == <<".">>
AllowedDotfiles ==
    << <<".", "e", "n", "v">>,
       <<".", "g", "i", "t", "i", "g", "n", "o", "r", "e">>,
       <<".", "d", "o", "c", "k", "e", "r", "i", "g", "n", "o", "r", "e">>,
       <<".", "e", "s", "l", "i", "n", "t", "r", "c">>,
       <<".", "p", "r", "e", "t", "t", "i", "e", "r", "r", "c">> >>

\* The skipPatterns that match a whole name: /^node_modules$/ ... /^coverage$/.
SkipNames ==
    { <<"n", "o", "d", "e", "_", "m", "o", "d", "u", "l", "e", "s">>,
      <<"_", "_", "p", "y", "c", "a", "c", "h", "e", "_", "_">>,
      <<".", "g", "i", "t">>,
      <<"t", "a", "r", "g", "e", "t">>,
      <<"b", "u", "i", "l", "d">>,
      <<"d", "i", "s", "t">>,
      <<".", "n", "e", "x", "t">>,
      <<"c", "o", "v", "e", "r", "a", "g", "e">> }

\* skipPatterns.some(pattern => pattern.test(filename))
MatchesSkipPattern(filename) ==
    \/ StartsWith(filename, S_dot)                      \* /^\./
    \/ filename \in SkipNames
    \/ EndsWith(filename, <<".", "t", "m", "p">>)      \* /\.tmp$/
    \/ EndsWith(filename, <<".", "l", "o", "g">>)      \* /\.log$/
    \/ EndsWith(filename, <<"~">>)                      \* /~$/

shouldSkipFile(filename) ==
    IF /\ StartsWith(filename, S_dot)
       /\ ~ \E i \in 1..Len(AllowedDotfiles) : StartsWith(filename, AllowedDotfiles[i])
    THEN TRUE
    ELSE MatchesSkipPattern(filename)

\* The descriptor scanDirectory pushes for a file entry.
Descriptor(entry, dirPath, relativePath) ==
    [name |-> entry.name,
     path |-> PathJoin(relativePath, entry.name),
     fullPath |-> PathJoin(dirPath, entry.name),
     size |-> entry.size,
     extension |-> ToLowerCase(ExtName(entry.name)),
     isDirectory |-> FALSE]

\* scanDirectory(dirPath, relativePath, maxDepth, currentDepth) over the
\* entries readdir returns; a symlink is neither isDirectory() nor isFile().
\* A directory whose readdir throws (kind "lockedDir") makes the recursive
\* call return its empty list, and a file whose stat throws (kind
\* "vanished") is dropped by the inner catch: both contribute nothing.
RECURSIVE scanDirectory(_, _, _, _, _)
RECURSIVE scanEntries(_, _, _, _, _)
\* A walk without the depth test.
scanDirectoryUnbounded(entries, dirPath, relativePath, maxDepth, currentDepth) ==
    scanEntries(entries, dirPath, relativePath, maxDepth, currentDepth)

scanDirectory(entries, dirPath, relativePath, maxDepth, currentDepth) ==
    IF currentDepth >= maxDepth THEN <<>>
    ELSE scanEntries(entries, dirPath, relativePath, maxDepth, currentDepth)

scanEntries(entries, dirPath, relativePath, maxDepth, currentDepth) ==
    IF entries = <<>> THEN <<>>
    ELSE LET entry == entries[1]
             rest  == scanEntries(Tail(entries), dirPath, relativePath, maxDepth, currentDepth)
         IN  IF shouldSkipFile(entry.name) THEN rest
             ELSE IF entry.kind = "dir"
                  THEN scanDirectory(entry.children, PathJoin(dirPath, entry.name),
                                     PathJoin(relativePath, entry.name),
                                     maxDepth, currentDepth + 1) \o rest
             ELSE IF entry.kind = "file"
                  THEN <<Descriptor(entry, dirPath, relativePath)>> \o rest
             ELSE rest

(***************************************************************************)
(* Ordering of strings (Array.prototype.sort without a comparator compares *)
(* UTF-16 code units).                                                     *)
(***************************************************************************)
AsciiOrder ==
    << " ", "#", "-", ".", "/", "0", "1", "2", "3", "4", "5", "6", "7", "8", "9",
       ":", "<", "=", ">", "@",
       "A", "B", "C", "D", "E", "F", "G", "H", "I", "J", "K", "L", "M",
       "N", "O", "P", "Q", "R", "S", "T", "U", "V", "W", "X", "Y", "Z", "_",
       "a", "b", "c", "d", "e", "f", "g", "h", "i", "j", "k", "l", "m",
       "n", "o", "p", "q", "r", "s", "t", "u", "v", "w", "x", "y", "z", "~" >>

CharCode(c) == CHOOSE i \in 1..Len(AsciiOrder) : AsciiOrder[i] = c

RECURSIVE StrLess(_, _)
StrLess(a, b) ==
    IF b = <<>> THEN FALSE
    ELSE IF a = <<>> THEN TRUE
    ELSE IF a[1] = b[1] THEN StrLess(Tail(a), Tail(b))
    ELSE CharCode(a[1]) < CharCode(b[1])

\* Array.from(set).sort()
RECURSIVE SortStrings(_)
SortStrings(S) ==
    IF S = {} THEN <<>>
    ELSE LET m == CHOOSE x \in S : \A y \in S \ {x} : StrLess(x, y)
         IN  <<m>> \o SortStrings(S \ {m})

\* The elements of s that satisfy a test, in order, without repetition
\* (the insertion order of a Set or of an object's keys).
RECURSIVE Distinct(_)
Distinct(s) ==
    IF s = <<>> THEN <<>>
    ELSE LET front == Distinct(SubSeq(s, 1, Len(s) - 1))
             last  == s[Len(s)]
         IN  IF last \in Range(front) THEN front ELSE Append(front, last)

(***************************************************************************)
(* analyzeProjectStructure and isImportantFile.                            *)
(***************************************************************************)
MaxStructureDirs == 15
MaxStructureFiles == 10

S_readme == <<"r", "e", "a", "d", "m", "e">>

ImportantNames ==
    { <<"p", "a", "c", "k", "a", "g", "e", ".", "j", "s", "o", "n">>,
      <<"r", "e", "q", "u", "i", "r", "e", "m", "e", "n", "t", "s", ".", "t", "x", "t">>,
      <<"p", "o", "m", ".", "x", "m", "l">>,
      <<"C", "a", "r", "g", "o", ".", "t", "o", "m", "l">>,
      <<"g", "o", ".", "m", "o", "d">>,
      <<"R", "E", "A", "D", "M", "E", ".", "m", "d">>,
      <<"R", "E", "A", "D", "M", "E", ".", "t", "x", "t">>,
      <<"L", "I", "C", "E", "N", "S", "E">>,
      <<"D", "o", "c", "k", "e", "r", "f", "i", "l", "e">>,
      <<"d", "o", "c", "k", "e", "r", "-", "c", "o", "m", "p", "o", "s", "e", ".", "y", "m", "l">>,
      <<"t", "s", "c", "o", "n", "f", "i", "g", ".", "j", "s", "o", "n">>,
      <<"w", "e", "b", "p", "a", "c", "k", ".", "c", "o", "n", "f", "i", "g", ".", "j", "s">>,
      <<"v", "i", "t", "e", ".", "c", "o", "n", "f", "i", "g", ".", "j", "s">>,
      <<".", "e", "n", "v", ".", "e", "x", "a", "m", "p", "l", "e">> }

isImportantFile(filename) ==
    filename \in ImportantNames \/ StartsWith(ToLowerCase(filename), S_readme)

\* The tree's branch marker, the four characters U+251C U+2500 U+2500 U+0020.
S_branch == <<"U+251C", "U+2500", "U+2500", " ">>

\* The root line of the tree: `${path.basename(repoPath)}/`.
StructureRoot(repoDirName) == repoDirName \o <<"/">>

analyzeProjectStructure(files, repoDirName) ==
    LET parts(i)    == Split(files[i].path, "/")
        directories == UNION { { JoinWith(SubSeq(parts(i), 1, k), "/") :
                                   k \in 1..(Len(parts(i)) - 1) } : i \in 1..Len(files) }
        rootIdx     == {i \in 1..Len(files) : Len(parts(i)) = 1}
        rootFiles   == [k \in 1..Len(files) |-> files[k].name]
        rootSeq     == FilterSeq([k \in 1..Len(files) |-> [i |-> k, n |-> rootFiles[k]]],
                                 {[i |-> k, n |-> rootFiles[k]] : k \in rootIdx})
        sortedDirs  == SortStrings(directories)
        topLevel    == FilterSeq(sortedDirs, {d \in directories : IndexOf(d, "/") = 0})
        importantDirs  == Take(topLevel, MaxStructureDirs)
        importantFiles ==
            Take(FilterSeq(rootSeq, {x \in Range(rootSeq) : isImportantFile(x.n)}),
                 MaxStructureFiles)
        tree == <<StructureRoot(repoDirName)>>
                \o [k \in 1..Len(importantDirs) |-> S_branch \o importantDirs[k] \o <<"/">>]
                \o [k \in 1..Len(importantFiles) |-> S_branch \o importantFiles[k].n]
    IN  JoinWith(tree, "\n")

(***************************************************************************)
(* analyzeLanguages.                                                       *)
(***************************************************************************)
languageMap ==
    { << <<".", "j", "s">>, "JavaScript" >>,
      << <<".", "j", "s", "x">>, "JavaScript" >>,
      << <<".", "t", "s">>, "TypeScript" >>,
      << <<".", "t", "s", "x">>, "TypeScript" >>,
      << <<".", "p", "y">>, "Python" >>,
      << <<".", "j", "a", "v", "a">>, "Java" >>,
      << <<".", "k", "t">>, "Kotlin" >>,
      << <<".", "g", "o">>, "Go" >>,
      << <<".", "r", "s">>, "Rust" >>,
      << <<".", "p", "h", "p">>, "PHP" >>,
      << <<".", "r", "b">>, "Ruby" >>,
      << <<".", "c", "s">>, "C#" >>,
      << <<".", "c", "p", "p">>, "C++" >>,
      << <<".", "c">>, "C" >>,
      << <<".", "s", "w", "i", "f", "t">>, "Swift" >>,
      << <<".", "d", "a", "r", "t">>, "Dart" >>,
      << <<".", "s", "c", "a", "l", "a">>, "Scala" >> }

HasLanguage(ext) == \E p \in languageMap : p[1] = ext

LanguageOf(ext) == (CHOOSE p \in languageMap : p[1] = ext)[2]

\* Variant: a sort by fileCount, descending, that puts an element before
\* the elements of the same count.
RECURSIVE SortTiesReversed(_)
SortTiesReversed(s) ==
    IF s = <<>> THEN <<>>
    ELSE LET front == SortTiesReversed(SubSeq(s, 1, Len(s) - 1))
             x     == s[Len(s)]
             keep  == {i \in 1..Len(front) : front[i].fileCount > x.fileCount}
             k     == IF keep = {} THEN 0 ELSE CHOOSE i \in keep : \A j \in keep : j <= i
         IN  SubSeq(front, 1, k) \o <<x>> \o SubSeq(front, k + 1, Len(front))

\* A stable sort of records by their fileCount, descending (insertion sort:
\* an element goes after every element that does not have a smaller count).
RECURSIVE SortByCountDesc(_)
SortByCountDesc(s) ==
    IF s = <<>> THEN <<>>
    ELSE LET front == SortByCountDesc(SubSeq(s, 1, Len(s) - 1))
             x     == s[Len(s)]
             keep  == {i \in 1..Len(front) : front[i].fileCount >= x.fileCount}
             k     == IF keep = {} THEN 0 ELSE CHOOSE i \in keep : \A j \in keep : j <= i
         IN  SubSeq(front, 1, k) \o <<x>> \o SubSeq(front, k + 1, Len(front))

analyzeLanguages(files) ==
    LET known  == FilterSeq([i \in 1..Len(files) |-> [i |-> i, x |-> files[i].extension]],
                            {[i |-> i, x |-> files[i].extension] :
                                i \in {j \in 1..Len(files) : HasLanguage(files[j].extension)}})
        langs  == [k \in 1..Len(known) |-> LanguageOf(known[k].x)]
        keys   == Distinct(langs)
        count(l) == Cardinality({k \in 1..Len(langs) : langs[k] = l})
    IN  SortByCountDesc([k \in 1..Len(keys) |-> [language |-> keys[k], fileCount |-> count(keys[k])]])

(***************************************************************************)
(* File reads.  fs.readFile(file.fullPath, 'utf8') either returns the      *)
(* content or throws; the extractors catch every such throw themselves.    *)
(***************************************************************************)
NoReadError == [code |-> "", path |-> <<>>]

ReadOk(c) == [ok |-> TRUE, content |-> c, error |-> NoReadError]

ReadFailed(code, fullPath) ==
    [ok |-> FALSE, content |-> Text(0, 0, {}), error |-> [code |-> code, path |-> fullPath]]

\* The JavaScript value null, where a facet holds null instead of a record.
NullValue == [null |-> TRUE]

\* content.slice(0, n) of the file at relative path p: the prefix of that
\* file's text of length min(n, content.length).
Slice(c, p, n) == [prefixOf |-> p, length |-> IF c.length < n THEN c.length ELSE n]

\* files.find(pred): the first match, as a sequence of zero or one element.
FindFirst(files, matching) == Take(FilterSeq(files, matching), 1)

S_slash == <<"/">>

(***************************************************************************)
(* analyzeFrameworks.                                                      *)
(***************************************************************************)
JsFrameworks ==
    << << <<"r", "e", "a", "c", "t">>, "React" >>,
       << <<"n", "e", "x", "t">>, "Next.js" >>,
       << <<"v", "u", "e">>, "Vue.js" >>,
       << <<"@", "a", "n", "g", "u", "l", "a", "r", "/", "c", "o", "r", "e">>, "Angular" >>,
       << <<"e", "x", "p", "r", "e", "s", "s">>, "Express.js" >>,
       << <<"f", "a", "s", "t", "i", "f", "y">>, "Fastify" >>,
       << <<"@", "n", "e", "s", "t", "j", "s", "/", "c", "o", "r", "e">>, "NestJS" >>,
       << <<"s", "v", "e", "l", "t", "e">>, "Svelte" >>,
       << <<"n", "u", "x", "t">>, "Nuxt.js" >>,
       << <<"g", "a", "t", "s", "b", "y">>, "Gatsby" >> >>

PyFrameworks ==
    << << <<"d", "j", "a", "n", "g", "o">>, "Django" >>,
       << <<"f", "l", "a", "s", "k">>, "Flask" >>,
       << <<"f", "a", "s", "t", "a", "p", "i">>, "FastAPI" >>,
       << <<"t", "o", "r", "n", "a", "d", "o">>, "Tornado" >>,
       << <<"p", "y", "r", "a", "m", "i", "d">>, "Pyramid" >> >>

JavaFrameworks ==
    << << "spring-boot", "Spring Boot" >>,
       << "spring-web", "Spring Framework" >>,
       << "quarkus", "Quarkus" >> >>

\* The names of a signature table whose test holds, in the table's order.
Detected(table, hits) ==
    LET kept == FilterSeq(table, {table[i] : i \in hits})
    IN  [k \in 1..Len(kept) |-> kept[k][2]]

PackageJsonFile(files) ==
    FindFirst(files, {f \in Range(files) : f.name = N_package_json /\ ~Includes(f.path, S_slash)})

RequirementsFile(files) == FindFirst(files, {f \in Range(files) : f.name = N_requirements_txt})

PomFile(files) == FindFirst(files, {f \in Range(files) : f.name = N_pom_xml})

\* The files analyzeFrameworks reads, in the order it reads them.
FrameworksPlan(files) == PackageJsonFile(files) \o RequirementsFile(files) \o PomFile(files)

\* The keys of { ...packageJson.dependencies, ...packageJson.devDependencies }.
AllDeps(json) ==
    (IF json.hasDeps THEN Range(json.dependencies) ELSE {})
    \cup (IF json.hasDev THEN Range(json.devDependencies) ELSE {})

\* The names analyzeFrameworks pushes, in the order it pushes them.
FrameworkSignals(files, reads) ==
    LET nPkg == Len(PackageJsonFile(files))
        nReq == Len(RequirementsFile(files))
        nPom == Len(PomFile(files))
        pkg  == reads[1]
        req  == reads[nPkg + 1]
        pom  == reads[nPkg + nReq + 1]
        fromPkg ==
            IF nPkg = 1 /\ pkg.ok /\ pkg.content.json.kind = "object"
            THEN Detected(JsFrameworks,
                          {i \in 1..Len(JsFrameworks) :
                              JsFrameworks[i][1] \in AllDeps(pkg.content.json)})
            ELSE <<>>
        fromReq ==
            IF nReq = 1 /\ req.ok
            THEN Detected(PyFrameworks,
                          {i \in 1..Len(PyFrameworks) :
                              \E k \in 1..Len(req.content.lines) :
                                  Includes(ToLowerCase(req.content.lines[k]), PyFrameworks[i][1])})
            ELSE <<>>
        fromPom ==
            IF nPom = 1 /\ pom.ok
            THEN Detected(JavaFrameworks,
                          {i \in 1..Len(JavaFrameworks) :
                              JavaFrameworks[i][1] \in pom.content.markers})
            ELSE <<>>
    IN  fromPkg \o fromReq \o fromPom

\* Variant: the detector that reports 'Unknown Framework' when it detects
\* nothing, as the simulated analyzer did.
analyzeFrameworksOrUnknown(files, reads) ==
    IF FrameworkSignals(files, reads) = <<>> THEN <<"Unknown Framework">>
    ELSE Distinct(FrameworkSignals(files, reads))

\* return [...new Set(frameworks)]
analyzeFrameworks(files, reads) == Distinct(FrameworkSignals(files, reads))

(***************************************************************************)
(* analyzeDependencies.                                                    *)
(***************************************************************************)
\* packageManager: null
PM_null == "null (no package manager)"

IsSpace(c) == c \in {" ", "\t", "\r", "\n"}

RECURSIVE TrimStart(_)
TrimStart(s) == IF s # <<>> /\ IsSpace(s[1]) THEN TrimStart(Tail(s)) ELSE s

RECURSIVE TrimEnd(_)
TrimEnd(s) ==
    IF s # <<>> /\ IsSpace(s[Len(s)]) THEN TrimEnd(SubSeq(s, 1, Len(s) - 1)) ELSE s

Trim(s) == TrimEnd(TrimStart(s))

\* line.split(/[>=<]/)[0]
BeforeOperator(line) ==
    LET hits == {i \in 1..Len(line) : line[i] \in {">", "=", "<"}}
    IN  IF hits = {} THEN line
        ELSE SubSeq(line, 1, (CHOOSE i \in hits : \A j \in hits : i <= j) - 1)

PythonDeps(lines) ==
    LET kept == FilterSeq(lines, {l \in Range(lines) : Trim(l) # <<>> /\ ~StartsWith(l, <<"#">>)})
    IN  [k \in 1..Len(kept) |-> Trim(BeforeOperator(kept[k]))]

\* The files analyzeDependencies reads, in the order it reads them.
DependenciesPlan(files) == PackageJsonFile(files) \o RequirementsFile(files)

\* Variant: the dependencies object starts with packageManager 'unknown'.
UnknownDependencies ==
    [production |-> <<>>, development |-> <<>>, total |-> 0, packageManager |-> "unknown"]

NoDependencies ==
    [production |-> <<>>, development |-> <<>>, total |-> 0, packageManager |-> PM_null]

\* Variant: packageManager is set to 'npm' before JSON.parse is called.
NpmBeforeParse(files, reads) ==
    IF Len(PackageJsonFile(files)) = 0 \/ ~reads[1].ok THEN NoDependencies
    ELSE [NoDependencies EXCEPT !.packageManager = "npm"]

\* The dependencies object after the package.json block.
AfterPackageJson(files, reads) ==
    LET pkg == reads[1]
    IN  IF Len(PackageJsonFile(files)) = 0 \/ ~pkg.ok \/ pkg.content.json.kind = "SyntaxError"
        THEN NoDependencies
        ELSE IF pkg.content.json.kind = "null"
        THEN [NoDependencies EXCEPT !.packageManager = "npm"]
        ELSE LET json == pkg.content.json
                 prod == IF json.hasDeps THEN json.dependencies ELSE <<>>
                 dev  == IF json.hasDev THEN json.devDependencies ELSE <<>>
                 hasYarnLock == \E i \in 1..Len(files) : files[i].name = N_yarn_lock
             IN  [production |-> prod, development |-> dev,
                  total |-> Len(prod) + Len(dev),
                  packageManager |-> IF hasYarnLock THEN "yarn" ELSE "npm"]

analyzeDependencies(files, reads) ==
    LET nPkg == Len(PackageJsonFile(files))
        req  == reads[nPkg + 1]
        d    == AfterPackageJson(files, reads)
    IN  IF Len(RequirementsFile(files)) = 1 /\ req.ok
        THEN LET pythonDeps == PythonDeps(req.content.lines)
             IN  [d EXCEPT !.production = pythonDeps, !.total = Len(pythonDeps),
                           !.packageManager = "pip"]
        ELSE d

(***************************************************************************)
(* findAndReadReadme.                                                      *)
(***************************************************************************)
ReadmeBudget == 8000

ReadmeFile(files) ==
    FindFirst(files, {f \in Range(files) :
                         StartsWith(ToLowerCase(f.name), S_readme) /\ ~Includes(f.path, S_slash)})

\* The file findAndReadReadme reads.
ReadmePlan(files) == ReadmeFile(files)

\* What findAndReadReadme returns when reading the README throws.
ReadmeReadError(readmeFile, error) ==
    [filename |-> readmeFile.name, content |-> NullValue, error |-> error]

\* Variant: hasMore is content.length >= 8000.
ReadmeHasMoreAtBudget(files, reads) ==
    IF ReadmeFile(files) = <<>> THEN NullValue
    ELSE IF reads[1].ok
         THEN [filename |-> ReadmeFile(files)[1].name,
               content |-> Slice(reads[1].content, ReadmeFile(files)[1].path, ReadmeBudget),
               fullLength |-> reads[1].content.length,
               hasMore |-> reads[1].content.length >= ReadmeBudget]
         ELSE ReadmeReadError(ReadmeFile(files)[1], reads[1].error)

findAndReadReadme(files, reads) ==
    IF ReadmeFile(files) = <<>> THEN NullValue
    ELSE LET readmeFile == ReadmeFile(files)[1]
         IN  IF reads[1].ok
             THEN [filename |-> readmeFile.name,
                   content |-> Slice(reads[1].content, readmeFile.path, ReadmeBudget),
                   fullLength |-> reads[1].content.length,
                   hasMore |-> reads[1].content.length > ReadmeBudget]
             ELSE ReadmeReadError(readmeFile, reads[1].error)

(***************************************************************************)
(* findEntryPoints, findConfigFiles, findTestFiles.                        *)
(***************************************************************************)
\* The names the entryPatterns match; every pattern has priority 1, so the
\* stable sort by priority keeps the order in which the files were met.
EntryNames ==
    { <<"i", "n", "d", "e", "x", ".", "j", "s">>,
      <<"i", "n", "d", "e", "x", ".", "t", "s">>,
      <<"i", "n", "d", "e", "x", ".", "j", "s", "x">>,
      <<"i", "n", "d", "e", "x", ".", "t", "s", "x">>,
      <<"m", "a", "i", "n", ".", "j", "s">>,
      <<"m", "a", "i", "n", ".", "t", "s">>,
      <<"m", "a", "i", "n", ".", "j", "s", "x">>,
      <<"m", "a", "i", "n", ".", "t", "s", "x">>,
      <<"a", "p", "p", ".", "j", "s">>,
      <<"a", "p", "p", ".", "t", "s">>,
      <<"a", "p", "p", ".", "j", "s", "x">>,
      <<"a", "p", "p", ".", "t", "s", "x">>,
      <<"s", "e", "r", "v", "e", "r", ".", "j", "s">>,
      <<"s", "e", "r", "v", "e", "r", ".", "t", "s">>,
      <<"s", "e", "r", "v", "e", "r", ".", "j", "s", "x">>,
      <<"s", "e", "r", "v", "e", "r", ".", "t", "s", "x">>,
      <<"m", "a", "i", "n", ".", "p", "y">>,
      <<"a", "p", "p", ".", "p", "y">>,
      <<"s", "e", "r", "v", "e", "r", ".", "p", "y">>,
      <<"m", "a", "n", "a", "g", "e", ".", "p", "y">>,
      <<"M", "a", "i", "n", ".", "j", "a", "v", "a">>,
      <<"A", "p", "p", "l", "i", "c", "a", "t", "i", "o", "n", ".", "j", "a", "v", "a">>,
      <<"m", "a", "i", "n", ".", "g", "o">>,
      <<"m", "a", "i", "n", ".", "r", "s">> }

findEntryPoints(files) ==
    LET hits == FilterSeq(files, {f \in Range(files) : ~f.isDirectory /\ f.name \in EntryNames})
    IN  [k \in 1..Len(hits) |-> hits[k].path]

MaxConfigFiles == 20
MaxTestFiles == 30

configPatterns ==
    { <<"p", "a", "c", "k", "a", "g", "e", ".", "j", "s", "o", "n">>,
      <<"t", "s", "c", "o", "n", "f", "i", "g", ".", "j", "s", "o", "n">>,
      <<"w", "e", "b", "p", "a", "c", "k", ".", "c", "o", "n", "f", "i", "g", ".", "j", "s">>,
      <<"v", "i", "t", "e", ".", "c", "o", "n", "f", "i", "g", ".", "j", "s">>,
      <<"r", "e", "q", "u", "i", "r", "e", "m", "e", "n", "t", "s", ".", "t", "x", "t">>,
      <<"s", "e", "t", "u", "p", ".", "p", "y">>,
      <<"p", "y", "p", "r", "o", "j", "e", "c", "t", ".", "t", "o", "m", "l">>,
      <<"P", "i", "p", "f", "i", "l", "e">>,
      <<"p", "o", "m", ".", "x", "m", "l">>,
      <<"b", "u", "i", "l", "d", ".", "g", "r", "a", "d", "l", "e">>,
      <<"C", "a", "r", "g", "o", ".", "t", "o", "m", "l">>,
      <<"g", "o", ".", "m", "o", "d">>,
      <<".", "e", "n", "v">>,
      <<".", "e", "n", "v", ".", "e", "x", "a", "m", "p", "l", "e">>,
      <<".", "e", "n", "v", ".", "l", "o", "c", "a", "l">>,
      <<"d", "o", "c", "k", "e", "r", "-", "c", "o", "m", "p", "o", "s", "e", ".", "y", "m", "l">>,
      <<"D", "o", "c", "k", "e", "r", "f", "i", "l", "e">>,
      <<"n", "g", "i", "n", "x", ".", "c", "o", "n", "f">>,
      <<"a", "p", "a", "c", "h", "e", ".", "c", "o", "n", "f">>,
      <<".", "e", "s", "l", "i", "n", "t", "r", "c">>,
      <<".", "p", "r", "e", "t", "t", "i", "e", "r", "r", "c">>,
      <<".", "b", "a", "b", "e", "l", "r", "c">> }

ConfigSuffixes ==
    { <<".", "c", "o", "n", "f", "i", "g", ".", "j", "s">>,
      <<".", "c", "o", "n", "f", "i", "g", ".", "t", "s">>,
      <<".", "y", "m", "l">>,
      <<".", "y", "a", "m", "l">>,
      <<".", "t", "o", "m", "l">>,
      <<".", "j", "s", "o", "n">> }

IsConfigFile(file) ==
    /\ ~file.isDirectory
    /\ \/ file.name \in configPatterns
       \/ \E sfx \in ConfigSuffixes : EndsWith(file.name, sfx)

\* Variant: the last MaxConfigFiles matches are kept.
LastConfigFiles(files) ==
    LET hits == FilterSeq(files, {f \in Range(files) : IsConfigFile(f)})
        from == IF Len(hits) > MaxConfigFiles THEN Len(hits) - MaxConfigFiles ELSE 0
    IN  [k \in 1..(Len(hits) - from) |-> hits[from + k].path]

findConfigFiles(files) ==
    LET hits == FilterSeq(files, {f \in Range(files) : IsConfigFile(f)})
    IN  Take([k \in 1..Len(hits) |-> hits[k].path], MaxConfigFiles)

IsTestFile(file) ==
    /\ ~file.isDirectory
    /\ \/ Includes(file.path, <<"t", "e", "s", "t">>)
       \/ Includes(file.path, <<"s", "p", "e", "c">>)
       \/ Includes(file.path, <<"_", "_", "t", "e", "s", "t", "s", "_", "_">>)
       \/ Includes(file.name, <<".", "t", "e", "s", "t", ".">>)
       \/ Includes(file.name, <<".", "s", "p", "e", "c", ".">>)
       \/ EndsWith(file.name, <<"_", "t", "e", "s", "t", ".", "p", "y">>)
       \/ EndsWith(file.name, <<"T", "e", "s", "t", ".", "j", "a", "v", "a">>)

findTestFiles(files) ==
    LET hits == FilterSeq(files, {f \in Range(files) : IsTestFile(f)})
    IN  Take([k \in 1..Len(hits) |-> hits[k].path], MaxTestFiles)

(***************************************************************************)
(* findApiSpecs.                                                           *)
(***************************************************************************)
MaxSpecFiles == 5
MaxGraphqlFiles == 3
PreviewBudget == 500
SpecSizeCeiling == 1024 * 1024

IsSpecCandidate(file) ==
    /\ ~file.isDirectory
    /\ \/ Includes(ToLowerCase(file.name), <<"s", "w", "a", "g", "g", "e", "r">>)
       \/ Includes(ToLowerCase(file.name), <<"o", "p", "e", "n", "a", "p", "i">>)
       \/ Includes(ToLowerCase(file.name), <<"a", "p", "i">>)
       \/ file.extension = <<".", "y", "a", "m", "l">>
       \/ file.extension = <<".", "y", "m", "l">>
    /\ file.size < SpecSizeCeiling

IsGraphqlCandidate(file) ==
    /\ ~file.isDirectory
    /\ \/ file.extension = <<".", "g", "r", "a", "p", "h", "q", "l">>
       \/ file.extension = <<".", "g", "q", "l">>
       \/ Includes(ToLowerCase(file.name), <<"s", "c", "h", "e", "m", "a">>)

SpecFiles(files) == Take(FilterSeq(files, {f \in Range(files) : IsSpecCandidate(f)}), MaxSpecFiles)

GraphqlFiles(files) ==
    Take(FilterSeq(files, {f \in Range(files) : IsGraphqlCandidate(f)}), MaxGraphqlFiles)

\* The files findApiSpecs reads, in the order it reads them.
ApiSpecsPlan(files) == SpecFiles(files) \o GraphqlFiles(files)

\* The entries pushed for the candidates cands, read as reads[offset + k].
RECURSIVE SpecEntries(_, _, _, _, _)
SpecEntries(cands, reads, offset, type, marks) ==
    IF cands = <<>> THEN <<>>
    ELSE LET n    == Len(cands)
             file == cands[n]
             rd   == reads[offset + n]
             front == SpecEntries(SubSeq(cands, 1, n - 1), reads, offset, type, marks)
         IN  IF rd.ok /\ rd.content.markers \cap marks # {}
             THEN Append(front, [file |-> file.path, type |-> type, size |-> file.size,
                                 preview |-> Slice(rd.content, file.path, PreviewBudget)])
             ELSE front

findApiSpecs(files, reads) ==
    SpecEntries(SpecFiles(files), reads, 0, "OpenAPI/Swagger", {"openapi:", "swagger:"})
    \o SpecEntries(GraphqlFiles(files), reads, Len(SpecFiles(files)), "GraphQL",
                   {"type ", "schema "})

(***************************************************************************)
(* calculateCodeMetrics.                                                   *)
(***************************************************************************)
MaxSampleFiles == 10

codeExtensions ==
    { <<".", "j", "s">>,
      <<".", "j", "s", "x">>,
      <<".", "t", "s">>,
      <<".", "t", "s", "x">>,
      <<".", "p", "y">>,
      <<".", "j", "a", "v", "a">>,
      <<".", "k", "t">>,
      <<".", "g", "o">>,
      <<".", "r", "s">>,
      <<".", "p", "h", "p">>,
      <<".", "r", "b">>,
      <<".", "c", "s">>,
      <<".", "c", "p", "p">>,
      <<".", "c">> }

CodeFiles(files) ==
    FilterSeq(files, {f \in Range(files) : ~f.isDirectory /\ f.extension \in codeExtensions})

\* The files calculateCodeMetrics reads, in the order it reads them.
MetricsPlan(files) == Take(CodeFiles(files), MaxSampleFiles)

\* metrics.totalFiles: files.length
\* Variant: totalFiles counts the code files only.
MetricsCountsCodeFiles(files) == Len(CodeFiles(files))

MetricsTotalFiles(files) == Len(files)

\* averageFileSize: the guarded Math.round(total size / files.length)
AverageFileSize(files) ==
    IF Len(files) > 0
    THEN RoundDiv(SumSeq([i \in 1..Len(files) |-> files[i].size]), Len(files))
    ELSE 0

calculateCodeMetrics(files, reads) ==
    LET codeFiles   == CodeFiles(files)
        sampleFiles == MetricsPlan(files)
        totalLines  == SumSeq([k \in 1..Len(sampleFiles) |->
                                  IF reads[k].ok THEN reads[k].content.lineCount ELSE 0])
        \* Math.round(avgLinesPerFile * codeFiles.length), with
        \* avgLinesPerFile = totalLines / sampleFiles.length, or 0 for no sample
        estimatedTotalLines ==
            IF Len(sampleFiles) > 0
            THEN RoundDiv(totalLines * Len(codeFiles), Len(sampleFiles))
            ELSE 0
    IN  [totalFiles |-> MetricsTotalFiles(files),
         codeFiles |-> Len(codeFiles),
         estimatedLinesOfCode |-> estimatedTotalLines,
         totalSizeBytes |-> SumSeq([i \in 1..Len(files) |-> files[i].size]),
         averageFileSize |-> AverageFileSize(files)]

(***************************************************************************)
(* performAnalysis: the extractors that read files, and the assembly.      *)
(***************************************************************************)
\* The extractors that await file reads.  analyzeProjectStructure,
\* analyzeLanguages, findEntryPoints, findConfigFiles and findTestFiles
\* complete within the call that builds the argument of Promise.all.
Readers == {"frameworks", "dependencies", "readme", "apiSpecs", "metrics"}

\* The files extractor e reads, in order.
Plan(e, files) ==
    CASE e = "frameworks"   -> FrameworksPlan(files)
      [] e = "dependencies" -> DependenciesPlan(files)
      [] e = "readme"       -> ReadmePlan(files)
      [] e = "apiSpecs"     -> ApiSpecsPlan(files)
      [] e = "metrics"      -> MetricsPlan(files)

\* The reads every extractor is going to await, fixed when it is called.
Plans(files) == [e \in Readers |-> Plan(e, files)]

\* Extractor e with plan and reads has a read in flight.
InFlight(e, plan, reads) == Len(reads[e]) < Len(plan[e])

\* Variant: calculateCodeMetrics lets a failed read through.
CatchesAllButMetrics(e) == e \in {"frameworks", "dependencies", "readme", "apiSpecs"}

\* The extractors that catch a failed read themselves (every readFile of the
\* five sits inside a try/catch), so that their promise never rejects.
CatchesReadErrors(e) == e \in {"frameworks", "dependencies", "readme", "apiSpecs", "metrics"}

\* await Promise.all([...]) resumes: every promise has been fulfilled.
PromiseAllFulfilled(plan, reads) == \A e \in Readers : ~InFlight(e, plan, reads)

\* The object performAnalysis returns.
AnalysisResult(repoName, repoDirName, files, reads, analyzedAt) ==
    [repository |-> [name |-> repoName, analyzedAt |-> analyzedAt, totalFiles |-> Len(files)],
     structure |-> analyzeProjectStructure(files, repoDirName),
     languages |-> analyzeLanguages(files),
     frameworks |-> analyzeFrameworks(files, reads["frameworks"]),
     dependencies |-> analyzeDependencies(files, reads["dependencies"]),
     readme |-> findAndReadReadme(files, reads["readme"]),
     entryPoints |-> findEntryPoints(files),
     configFiles |-> findConfigFiles(files),
     testFiles |-> findTestFiles(files),
     apiSpecs |-> findApiSpecs(files, reads["apiSpecs"]),
     metrics |-> calculateCodeMetrics(files, reads["metrics"])]

(***************************************************************************)
(* The scratch root on disk.  A scratch directory is absent, holds a       *)
(* partial clone (git was stopped while writing), or holds the clone of    *)
(* repository repo (an index of Urls).                                     *)
(***************************************************************************)
Absent == [state |-> "absent", repo |-> 0]
Partial == [state |-> "partial", repo |-> 0]
Cloned(u) == [state |-> "cloned", repo |-> u]

DirNames == {CloneDirName(extractRepoName(Urls[u]), t) : u \in UrlIds, t \in 0..MaxTime}

\* The entry at the path parts below the entries of a directory.
RECURSIVE Lookup(_, _)
Lookup(entries, parts) ==
    LET hits == {i \in 1..Len(entries) : entries[i].name = parts[1]}
    IN  IF hits = {} THEN [found |-> FALSE, content |-> Text(0, 0, {})]
        ELSE LET entry == entries[CHOOSE i \in hits : TRUE]
             IN  IF Len(parts) = 1
                 THEN [found |-> entry.kind = "file", content |-> entry.content]
                 ELSE IF entry.kind = "dir" THEN Lookup(entry.children, Tail(parts))
                 ELSE [found |-> FALSE, content |-> Text(0, 0, {})]

\* fs.readFile(file.fullPath, 'utf8') below a directory that holds entries.
ReadIn(entries, file) ==
    LET at == Lookup(entries, Split(file.path, "/"))
    IN  IF ~at.found THEN ReadFailed("ENOENT", file.fullPath)
        ELSE IF ~at.content.readable THEN ReadFailed("ERR_STRING_TOO_LONG", <<>>)
        ELSE ReadOk(at.content)

\* fs.readFile(file.fullPath, 'utf8') with the scratch directory in state d.
ReadFile(d, file) ==
    IF d.state # "cloned" THEN ReadFailed("ENOENT", file.fullPath)
    ELSE ReadIn(Trees[d.repo], file)

\* fs.readdir and the walk of the scratch directory in state d: an absent
\* root makes readdir throw, which scanDirectory catches.
WalkOf(d, clonePath) ==
    IF d.state = "cloned" THEN scanDirectory(Trees[d.repo], clonePath, <<>>, MaxDepth, 0)
    ELSE <<>>

(***************************************************************************)
(* The orchestrator: analyzeRepository, cloneRepository, cleanup.          *)
(*                                                                         *)
(* Each call r of analyzeRepository is a process; an action is one turn of *)
(* the event loop (the code between two awaits) or the completion of an    *)
(* operation of the operating system (git, fs.rm).                         *)
(***************************************************************************)
VARIABLES
    now,           \* Date.now()
    disk,          \* the scratch root: directory name -> Absent | Partial | Cloned(u)
    pc,            \* where call r stands
    url,           \* repoUrl of call r, an index of Urls (0: not called yet)
    stamp,         \* const timestamp of call r
    files,         \* allFiles of call r
    plan,          \* the files each extractor of call r is to read, in order
    reads,         \* the results of the reads each extractor of call r has awaited
    result,        \* the analysis call r returns
    error,         \* the error call r throws
    outcome,       \* "pending" | "returned" | "threw": what the caller of r has seen
    cleanupCalls,  \* how often call r has invoked this.cleanup(clonePath)
    rmOutcome,     \* "none" | "removed" | "failed": how fs.rm of call r ended
    phases         \* the milestones call r has passed

vars == <<now, disk, pc, url, stamp, files, plan, reads, result, error, outcome,
          cleanupCalls, rmOutcome, phases>>

\* The extractors applied to one file list on their own.
VARIABLES
    tree,          \* the entries of the directory scanDirectory is given
    facet,         \* the extractor that has been applied ("none" before)
    value          \* what it returned

extractVars == <<tree, facet, value>>

\* The repository registry and the documentation store.
VARIABLES
    repos,         \* data/repositories.json: the repositories array
    docFiles,      \* data/documentation: file name -> content
    memDocs,       \* generatedDocs: the keys that hold a documentation, with it
    timers,        \* the ids whose setTimeout callback of POST has not run yet
    requests,      \* the requests in flight: each handler's position and locals
    served         \* the number of requests accepted so far

registryVars == <<repos, docFiles, memDocs, timers, requests, served>>

allVars == <<vars, extractVars, registryVars>>

\* A thrown Error: its message up to the colon, and the caught error whose
\* message follows the colon, named by its code.
NoError == [message |-> "", cause |-> ""]

NoReads == [e \in Readers |-> <<>>]

RepoName(r) == extractRepoName(Urls[url[r]])

DirOf(r) == CloneDirName(RepoName(r), stamp[r])

PathOf(r) == ClonePath(RepoName(r), stamp[r])

\* The error execAsync rejects with: a non-zero exit of git, or the child
\* killed when the timeout expired (code null, killed true, signal SIGTERM).
ExecError(exit) ==
    IF exit = "timeout" THEN [message |-> "Command failed", code |-> "null"]
    ELSE [message |-> "Command failed", code |-> "128"]

\* The catch block of cloneRepository: the error it throws for a caught error.
CloneError(caught) ==
    IF caught.code = "TIMEOUT"
    THEN [message |-> "Repository clone timed out - repository may be too large", cause |-> ""]
    ELSE [message |-> "Failed to clone repository", cause |-> caught.code]

\* The catch block of performAnalysis.
AnalysisError(caught) == [message |-> "Repository analysis failed", cause |-> caught.code]

\* Variant: cloneRepository goes on to fs.stat whatever became of git.
ExecIgnored(exit) == exit \in {"ok", "failed", "timeout"}

\* Whether execAsync resolved, so that cloneRepository goes on to fs.stat.
ExecSucceeded(exit) == exit = "ok"

\* Variant: cleanup is called in the catch block only.
CleanupInCatchOnly(exit) == exit = "throw"

\* Variant: cleanup is called at the end of the try block only.
CleanupInTryOnly(exit) == exit = "return"

\* The finally block of analyzeRepository runs cleanup on every way out of
\* the try block ("return" or "throw").
RunsCleanup(exit) == exit \in {"return", "throw"}

\* Variant: cleanup lets the error of fs.rm through.
CleanupRethrows(rmOk) == ~rmOk

\* Whether cleanup(dirPath) throws when fs.rm did (it catches and warns).
CleanupThrows(rmOk) == FALSE

AnalyzerIdle ==
    /\ now = 0
    /\ disk = [d \in DirNames |-> Absent]
    /\ pc = [r \in Runs |-> "idle"]
    /\ url = [r \in Runs |-> 0]
    /\ stamp = [r \in Runs |-> 0]
    /\ files = [r \in Runs |-> <<>>]
    /\ plan = [r \in Runs |-> NoReads]
    /\ reads = [r \in Runs |-> NoReads]
    /\ result = [r \in Runs |-> NullValue]
    /\ error = [r \in Runs |-> NoError]
    /\ outcome = [r \in Runs |-> "pending"]
    /\ cleanupCalls = [r \in Runs |-> 0]
    /\ rmOutcome = [r \in Runs |-> "none"]
    /\ phases = [r \in Runs |-> {}]

\* The clock advances.
Tick ==
    /\ now < MaxTime
    /\ now' = now + 1
    /\ UNCHANGED <<disk, pc, url, stamp, files, plan, reads, result, error, outcome,
                   cleanupCalls, rmOutcome, phases>>
    /\ UNCHANGED <<extractVars, registryVars>>

\* Control leaves the try block of analyzeRepository by `exit`, with error
\* err and analysis res: the finally block calls cleanup, which issues fs.rm.
LeaveTry(r, exit, err, res, marks) ==
    /\ error' = [error EXCEPT ![r] = err]
    /\ result' = [result EXCEPT ![r] = res]
    /\ IF RunsCleanup(exit)
       THEN /\ pc' = [pc EXCEPT ![r] = "cleanup"]
            /\ cleanupCalls' = [cleanupCalls EXCEPT ![r] = @ + 1]
            /\ phases' = [phases EXCEPT ![r] = @ \cup marks \cup {"cleanupStarted"}]
            /\ outcome' = outcome
       ELSE /\ pc' = [pc EXCEPT ![r] = "done"]
            /\ cleanupCalls' = cleanupCalls
            /\ phases' = [phases EXCEPT ![r] = @ \cup marks]
            /\ outcome' = [outcome EXCEPT ![r] = IF exit = "return" THEN "returned" ELSE "threw"]

\* analyzeRepository(repoUrl) is called: the name, the timestamp and the
\* clone path are fixed, and cloneRepository awaits fs.mkdir(tempDir).
Call(r, u) ==
    /\ pc[r] = "idle"
    /\ \A q \in Runs : q < r => pc[q] # "idle"
    /\ url' = [url EXCEPT ![r] = u]
    /\ stamp' = [stamp EXCEPT ![r] = now]
    /\ pc' = [pc EXCEPT ![r] = "mkdir"]
    /\ UNCHANGED <<now, disk, files, plan, reads, result, error, outcome,
                   cleanupCalls, rmOutcome, phases>>
    /\ UNCHANGED <<extractVars, registryVars>>

\* fs.mkdir(tempDir, {recursive: true}) completes: git clone is started, or
\* mkdir threw and cloneRepository throws.
MkdirDone(r) ==
    /\ pc[r] = "mkdir"
    /\ \/ /\ pc' = [pc EXCEPT ![r] = "cloning"]
          /\ UNCHANGED <<error, result, cleanupCalls, phases, outcome>>
       \/ LeaveTry(r, "throw", CloneError([message |-> "mkdir", code |-> "EACCES"]),
                   result[r], {"cloneFailed"})
    /\ UNCHANGED <<now, disk, url, stamp, files, plan, reads, rmOutcome>>
    /\ UNCHANGED <<extractVars, registryVars>>

\* git clone ends.  It refuses a destination that exists and is not empty;
\* otherwise it writes the clone, fails and leaves nothing, or is killed at
\* the timeout and leaves what it had written.
CloneExit(r) ==
    /\ pc[r] = "cloning"
    /\ \E exit \in {"ok", "failed", "timeout"} :
          /\ disk[DirOf(r)].state # "absent" => exit = "failed"
          /\ disk' = [disk EXCEPT ![DirOf(r)] =
                         CASE exit = "ok"      -> Cloned(url[r])
                           [] exit = "timeout" -> Partial
                           [] OTHER            -> @]
          /\ IF ExecSucceeded(exit)
             THEN /\ pc' = [pc EXCEPT ![r] = "stat"]
                  /\ phases' = [phases EXCEPT ![r] =
                                   @ \cup (IF exit = "ok" THEN {"gitOk"} ELSE {"gitFailed"})]
                  /\ UNCHANGED <<error, result, cleanupCalls, outcome>>
             ELSE LeaveTry(r, "throw", CloneError(ExecError(exit)), result[r],
                          {"gitFailed", "cloneFailed"})
    /\ UNCHANGED <<now, url, stamp, files, plan, reads, rmOutcome>>
    /\ UNCHANGED <<extractVars, registryVars>>

\* fs.stat(targetPath) completes: the clone is verified and performAnalysis
\* starts the walk, or stat threw (the directory is gone).
StatDone(r) ==
    /\ pc[r] = "stat"
    /\ IF disk[DirOf(r)].state # "absent"
       THEN /\ pc' = [pc EXCEPT ![r] = "walking"]
            /\ phases' = [phases EXCEPT ![r] = @ \cup {"cloneOk", "walkStarted"}]
            /\ UNCHANGED <<error, result, cleanupCalls, outcome>>
       ELSE LeaveTry(r, "throw", CloneError([message |-> "stat", code |-> "ENOENT"]),
                     result[r], {"cloneFailed"})
    /\ UNCHANGED <<now, disk, url, stamp, files, plan, reads, rmOutcome>>
    /\ UNCHANGED <<extractVars, registryVars>>

\* Promise.all has every result: performAnalysis assembles and returns the
\* analysis, analyzeRepository returns it through the finally block.
Assemble(r, fs, rs, marks) ==
    LeaveTry(r, "return", NoError,
             AnalysisResult(RepoName(r), DirOf(r), fs, rs, now),
             marks \cup {"collected", "assembled"})

\* scanDirectory returns allFiles; the ten extractors are called, each
\* running up to its first await, and performAnalysis awaits Promise.all.
WalkDone(r) ==
    /\ pc[r] = "walking"
    /\ LET fs == WalkOf(disk[DirOf(r)], PathOf(r))
       IN  /\ files' = [files EXCEPT ![r] = fs]
           /\ plan' = [plan EXCEPT ![r] = Plans(fs)]
           /\ IF PromiseAllFulfilled(Plans(fs), NoReads)
              THEN Assemble(r, fs, NoReads, {"walkDone", "extractStarted"})
              ELSE /\ pc' = [pc EXCEPT ![r] = "extracting"]
                   /\ phases' = [phases EXCEPT ![r] = @ \cup {"walkDone", "extractStarted"}]
                   /\ UNCHANGED <<error, result, cleanupCalls, outcome>>
    /\ UNCHANGED <<now, disk, url, stamp, reads, rmOutcome>>
    /\ UNCHANGED <<extractVars, registryVars>>

\* A read of extractor e completes.  The extractor catches a failed read
\* and goes on; when the last extractor has finished, Promise.all resumes
\* performAnalysis.  (A read error an extractor let through would reject
\* Promise.all at once and take performAnalysis to its catch block.)
ReadDone(r, e) ==
    /\ pc[r] = "extracting"
    /\ InFlight(e, plan[r], reads[r])
    /\ LET file == plan[r][e][Len(reads[r][e]) + 1]
           rd   == ReadFile(disk[DirOf(r)], file)
           rs   == [reads[r] EXCEPT ![e] = Append(@, rd)]
       IN  /\ reads' = [reads EXCEPT ![r] = rs]
           /\ IF ~rd.ok /\ ~CatchesReadErrors(e)
              THEN LeaveTry(r, "throw", AnalysisError(rd.error), result[r], {"rejected"})
              ELSE IF PromiseAllFulfilled(plan[r], rs)
              THEN Assemble(r, files[r], rs, {})
              ELSE UNCHANGED <<pc, error, result, cleanupCalls, phases, outcome>>
    /\ UNCHANGED <<now, disk, url, stamp, files, plan, rmOutcome>>
    /\ UNCHANGED <<extractVars, registryVars>>

\* fs.rm(dirPath, {recursive: true, force: true}) ends: the directory is
\* removed, or rm failed and left it.
RmExit(r) ==
    /\ pc[r] = "cleanup"
    /\ \E ok \in BOOLEAN :
          /\ disk' = [disk EXCEPT ![DirOf(r)] = IF ok THEN Absent ELSE @]
          /\ rmOutcome' = [rmOutcome EXCEPT ![r] = IF ok THEN "removed" ELSE "failed"]
    /\ pc' = [pc EXCEPT ![r] = "settling"]
    /\ UNCHANGED <<now, url, stamp, files, plan, reads, result, error, outcome,
                   cleanupCalls, phases>>
    /\ UNCHANGED <<extractVars, registryVars>>

\* cleanup returns and the finally block ends: the caller of
\* analyzeRepository gets the analysis or the error of the try block.
Settle(r) ==
    /\ pc[r] = "settling"
    /\ pc' = [pc EXCEPT ![r] = "done"]
    /\ phases' = [phases EXCEPT ![r] = @ \cup {"cleanupDone"}]
    /\ IF CleanupThrows(rmOutcome[r] = "removed")
       THEN /\ outcome' = [outcome EXCEPT ![r] = "threw"]
            /\ error' = [error EXCEPT ![r] = [message |-> "Cleanup failed", cause |-> "rm"]]
       ELSE /\ outcome' = [outcome EXCEPT ![r] =
                              IF error[r] = NoError THEN "returned" ELSE "threw"]
            /\ error' = error
    /\ UNCHANGED <<now, disk, url, stamp, files, plan, reads, result, cleanupCalls,
                   rmOutcome>>
    /\ UNCHANGED <<extractVars, registryVars>>

\* No extractor has been applied on its own.
ExtractIdle ==
    /\ tree = <<>>
    /\ facet = "none"
    /\ value = NullValue

\* No registry, no stored documentation and no request.
RegistryIdle ==
    /\ repos = <<>>
    /\ docFiles = <<>>
    /\ memDocs = <<>>
    /\ timers = {}
    /\ requests = <<>>
    /\ served = 0

Init == AnalyzerIdle /\ ExtractIdle /\ RegistryIdle

Next ==
    \/ Tick
    \/ \E r \in Runs, u \in UrlIds : Call(r, u)
    \/ \E r \in Runs : MkdirDone(r)
    \/ \E r \in Runs : CloneExit(r)
    \/ \E r \in Runs : StatDone(r)
    \/ \E r \in Runs : WalkDone(r)
    \/ \E r \in Runs, e \in Readers : ReadDone(r, e)
    \/ \E r \in Runs : RmExit(r)
    \/ \E r \in Runs : Settle(r)

Spec == Init /\ [][Next]_allVars

(***************************************************************************)
(* Properties.                                                             *)
(***************************************************************************)
Called(r) == pc[r] # "idle"

Finished(r) == outcome[r] # "pending"

\* Call r is between its call and its return or throw.
Active(r) == pc[r] \notin {"idle", "done"}

\* Some read of extractor e of call r failed.
ReadFailedIn(r, e) == \E k \in 1..Len(reads[r][e]) : ~reads[r][e][k].ok

\* What extractor e of call r reads when nothing interferes with the scratch
\* directory of the call.
UndisturbedReads(r, e) ==
    [k \in 1..Len(plan[r][e]) |-> ReadFile(Cloned(url[r]), plan[r][e][k])]

\* Call r walked and read its own complete clone.
Undisturbed(r) ==
    /\ files[r] = WalkOf(Cloned(url[r]), PathOf(r))
    /\ \A e \in Readers : reads[r][e] = UndisturbedReads(r, e)

\* C1: every call of analyzeRepository invokes cleanup of its scratch
\* directory exactly once, whichever way it ends (clone failed, analysis
\* returned), and cleanup has run to its end before the caller sees the
\* return or the throw.
C1_CleanupExactlyOnce ==
    \A r \in Runs :
        /\ cleanupCalls[r] <= 1
        /\ Finished(r) => /\ cleanupCalls[r] = 1
                          /\ rmOutcome[r] # "none"
                          /\ "cleanupDone" \in phases[r]

C1_Witness ==
    /\ outcome[1] = "threw" /\ "cloneFailed" \in phases[1] /\ cleanupCalls[1] = 1
    /\ outcome[2] = "returned" /\ "assembled" \in phases[2] /\ cleanupCalls[2] = 1

\* C2 as stated: when a failed or timed-out clone makes analyzeRepository
\* throw, the scratch directory of the call does not exist at the moment the
\* caller sees the throw.
C2_Original ==
    [][\A r \in Runs :
          (outcome[r] = "pending" /\ outcome'[r] = "threw" /\ "cloneFailed" \in phases'[r])
              => disk'[DirOf(r)] = Absent]_vars

\* Another call was given the scratch path of call r.
SharesPath(r) == \E q \in Runs \ {r} : Called(q) /\ DirOf(q) = DirOf(r)

\* C2 as amended: when a failed or timed-out clone makes analyzeRepository
\* throw, cleanup of the scratch directory has been invoked once and fs.rm
\* has ended before the caller sees the throw.  When fs.rm succeeded the
\* path (a partial clone included) did not exist as fs.rm ended; when it
\* failed, the failure is only logged and the directory stays.  The path
\* exists at the moment of the throw only if fs.rm failed or another call
\* was given the same path.
C2_Amended ==
    [][\A r \in Runs :
          /\ (rmOutcome[r] = "none" /\ rmOutcome'[r] = "removed" /\ "cloneFailed" \in phases[r])
                 => disk'[DirOf(r)] = Absent
          /\ (outcome[r] = "pending" /\ outcome'[r] = "threw" /\ "cloneFailed" \in phases'[r])
                 => /\ cleanupCalls'[r] = 1
                    /\ rmOutcome'[r] \in {"removed", "failed"}
                    /\ disk'[DirOf(r)] # Absent
                          => (rmOutcome'[r] = "failed" \/ SharesPath(r))]_vars

\* A clone that timed out and left a partial directory has thrown to the
\* caller with the directory removed.
C2_Witness ==
    \E r \in Runs :
        /\ outcome[r] = "threw" /\ error[r].cause = "null"
        /\ rmOutcome[r] = "removed" /\ disk[DirOf(r)] = Absent


\* The value an extractor gives when it finds nothing.
NothingFound(e) ==
    CASE e = "frameworks"   -> <<>>
      [] e = "dependencies" -> NoDependencies
      [] e = "readme"       -> NullValue
      [] e = "apiSpecs"     -> <<>>

\* The facet extractor e gives for the files fs and the reads rs.
Facet(e, fs, rs) ==
    CASE e = "frameworks"   -> analyzeFrameworks(fs, rs)
      [] e = "dependencies" -> analyzeDependencies(fs, rs)
      [] e = "readme"       -> findAndReadReadme(fs, rs)
      [] e = "apiSpecs"     -> findApiSpecs(fs, rs)
      [] e = "metrics"      -> calculateCodeMetrics(fs, rs)

\* C3: when a read inside one extractor fails, the analysis still returns,
\* and the facet of that extractor is the value it gives when it finds
\* nothing.
C3_FailedExtractorGivesNothingFound ==
    \A r \in Runs :
        /\ "extractStarted" \in phases[r] => outcome[r] # "threw"
        /\ outcome[r] = "returned" =>
              \A e \in {"frameworks", "dependencies", "readme", "apiSpecs"} :
                  ReadFailedIn(r, e) => result[r][e] = NothingFound(e)

\* The part of C3 the code has: a failed read inside an extractor never
\* fails the analysis, every extractor whose reads were not disturbed gives
\* the facet of a failure-free run, and a README that cannot be read gives
\* the record {filename, content: null, error}.
ReadFailureIsolation ==
    \A r \in Runs :
        /\ "extractStarted" \in phases[r] =>
              /\ outcome[r] # "threw"
              /\ pc[r] = "done" => outcome[r] = "returned"
        /\ outcome[r] = "returned" =>
              /\ \A e \in Readers :
                    reads[r][e] = UndisturbedReads(r, e)
                        => result[r][e] = Facet(e, files[r], UndisturbedReads(r, e))
              /\ ReadFailedIn(r, "readme") =>
                    result[r].readme =
                        ReadmeReadError(ReadmeFile(files[r])[1], reads[r].readme[1].error)

\* C4: cleanup of a call's scratch directory is never invoked while an
\* extractor of that call still has a read in flight, a failed read of
\* another extractor notwithstanding.
C4_NoCleanupDuringReads ==
    \A r \in Runs :
        cleanupCalls[r] > 0 => \A e \in Readers : ~InFlight(e, plan[r], reads[r])

\* One extractor of a call has ended with a failed read while another still
\* has a read in flight.
C4_Witness ==
    \E r \in Runs :
        /\ pc[r] = "extracting"
        /\ \E e \in Readers : ReadFailedIn(r, e) /\ ~InFlight(e, plan[r], reads[r])
        /\ \E e \in Readers : InFlight(e, plan[r], reads[r])

\* C5: two calls that overlap in time never have the same scratch
\* path.
C5_DistinctScratchPaths ==
    \A r, q \in Runs : (r # q /\ Active(r) /\ Active(q)) => PathOf(r) # PathOf(q)

\* C6: within a call the clone has succeeded before the walk starts, the walk
\* has ended before the extractors start, and every extractor has ended
\* before the analysis is assembled; after a failed clone neither the walk
\* nor any extractor runs.
C6_PhaseOrder ==
    \A r \in Runs :
        /\ "walkStarted" \in phases[r] => {"gitOk", "cloneOk"} \subseteq phases[r]
        /\ "extractStarted" \in phases[r] => {"walkStarted", "walkDone"} \subseteq phases[r]
        /\ "assembled" \in phases[r] =>
              /\ "extractStarted" \in phases[r]
              /\ \A e \in Readers : ~InFlight(e, plan[r], reads[r])
        /\ phases[r] \cap {"gitFailed", "cloneFailed"} # {} =>
              /\ phases[r] \cap {"walkStarted", "walkDone", "extractStarted", "assembled"} = {}
              /\ files[r] = <<>> /\ reads[r] = NoReads /\ result[r] = NullValue

\* One call has assembled its analysis after reads, another has ended with
\* a failed clone.
C6_Witness ==
    /\ "assembled" \in phases[1] /\ \E e \in Readers : reads[1][e] # <<>>
    /\ "cloneFailed" \in phases[2] /\ pc[2] = "done"


\* C7: a failure of fs.rm inside cleanup is never thrown to the caller of
\* analyzeRepository: the call that assembled an analysis returns it, and
\* the call that failed throws the error of its try block.
C7_CleanupFailureNotRaised ==
    \A r \in Runs :
        (Finished(r) /\ rmOutcome[r] = "failed") =>
            /\ error[r].message # "Cleanup failed"
            /\ "assembled" \in phases[r] =>
                  /\ outcome[r] = "returned"
                  /\ result[r] # NullValue /\ error[r] = NoError
            /\ "cloneFailed" \in phases[r] =>
                  /\ outcome[r] = "threw"
                  /\ error[r].message = "Failed to clone repository"

\* fs.rm has failed for a call that returned its analysis and for a call
\* whose clone failed.
C7_Witness ==
    /\ rmOutcome[1] = "failed" /\ outcome[1] = "returned" /\ result[1] # NullValue
    /\ rmOutcome[2] = "failed" /\ outcome[2] = "threw" /\ "cloneFailed" \in phases[2]

\* Two analyses differ in repository.analyzedAt at most.
EqualExceptAnalyzedAt(a, b) ==
    [a EXCEPT !.repository.analyzedAt = 0] = [b EXCEPT !.repository.analyzedAt = 0]

\* C8: two calls of analyzeRepository on the same repository, each of which
\* walked and read its own complete clone, return analyses that are equal in
\* every field except repository.analyzedAt.
C8_SameRepositorySameAnalysis ==
    \A r, q \in Runs :
        (/\ r # q
         /\ outcome[r] = "returned" /\ outcome[q] = "returned"
         /\ url[r] = url[q]
         /\ Undisturbed(r) /\ Undisturbed(q))
            => EqualExceptAnalyzedAt(result[r], result[q])

\* C9: every call whose clone succeeded returns an analysis, and both
\* metrics.totalFiles and repository.totalFiles of that analysis are the
\* number of file descriptors scanDirectory returned to the call.
C9_TotalFilesIsWalkLength ==
    \A r \in Runs :
        /\ ("cloneOk" \in phases[r] /\ pc[r] = "done") => outcome[r] = "returned"
        /\ outcome[r] = "returned" =>
              /\ result[r].metrics.totalFiles = Len(files[r])
              /\ result[r].repository.totalFiles = Len(files[r])

\* A call has returned the analysis of a walk that found code files and
\* other files.
C9_Witness ==
    \E r \in Runs :
        /\ outcome[r] = "returned"
        /\ Len(files[r]) > 1
        /\ result[r].metrics.codeFiles < Len(files[r])

\* The sequence fields of an analysis are empty and its counts are zero.
EmptyAnalysis(a) ==
    /\ a.languages = <<>> /\ a.frameworks = <<>>
    /\ a.dependencies.production = <<>> /\ a.dependencies.development = <<>>
    /\ a.entryPoints = <<>> /\ a.configFiles = <<>> /\ a.testFiles = <<>>
    /\ a.apiSpecs = <<>>
    /\ a.dependencies.total = 0
    /\ a.repository.totalFiles = 0 /\ a.metrics.totalFiles = 0
    /\ a.metrics.codeFiles = 0 /\ a.metrics.estimatedLinesOfCode = 0
    /\ a.metrics.totalSizeBytes = 0 /\ a.metrics.averageFileSize = 0

\* C10: when scanDirectory returns no file, the call does not throw and
\* returns an analysis whose sequence fields are empty and whose counts are
\* zero.
C10_EmptyWalkEmptyAnalysis ==
    \A r \in Runs :
        ("walkDone" \in phases[r] /\ files[r] = <<>>) =>
            /\ outcome[r] # "threw"
            /\ "assembled" \in phases[r] /\ EmptyAnalysis(result[r])
            /\ pc[r] = "done" => outcome[r] = "returned"

\* A call on a repository whose clone holds no file the walker keeps has
\* returned.
C10_Witness ==
    \E r \in Runs :
        /\ outcome[r] = "returned" /\ disk[DirOf(r)] = Absent
        /\ url[r] = 2 /\ files[r] = <<>> /\ plan[r] = NoReads

(***************************************************************************)
(* The extractors on their own: performAnalysis and single extractors      *)
(* applied to the file list of one directory, drawn from a bounded family. *)
(***************************************************************************)
MaxEntries == 3

MaxConfigs == 23

N_util_py == <<"u", "t", "i", "l", ".", "p", "y">>
N_app_ts == <<"a", "p", "p", ".", "t", "s">>
S_dot_json == <<".", "j", "s", "o", "n">>

\* The entries a small directory is made of: package.json malformed, without
\* dependencies and with two; requirements.txt; a README below, at and above
\* the budget of findAndReadReadme; code files of three languages.
EntryPool ==
    { File(N_package_json, 30, Text(30, 1, {})),
      File(N_package_json, 30, Manifest(30, <<>>, <<>>)),
      File(N_package_json, 70, Manifest(70, << <<"r", "e", "a", "c", "t">> >>, << <<"j", "e", "s", "t">> >>)),
      File(N_requirements_txt, 40, Requirements(40, <<L_django, L_comment, L_requests>>)),
      File(N_README_md, 200, Text(200, 6, {})),
      File(N_README_md, ReadmeBudget, Text(ReadmeBudget, 90, {})),
      File(N_README_md, ReadmeBudget + 1, Text(ReadmeBudget + 1, 90, {})),
      File(N_index_js, 120, Text(120, 10, {})),
      File(N_main_py, 90, Text(90, 7, {})),
      Dir(N_src, <<File(N_util_py, 50, Text(50, 4, {})), File(N_app_ts, 60, Text(60, 5, {}))>>) }

\* The directories of at most MaxEntries entries with distinct names.
SmallTrees ==
    {t \in UNION {[1..n -> EntryPool] : n \in 0..MaxEntries} :
        \A i, j \in 1..Len(t) : i < j => t[i].name # t[j].name}

\* A directory of n JSON files named by numbers, with a source file in
\* third place.
ConfigHeavy(n) ==
    [i \in 1..(n + 1) |->
        IF i = 3 THEN File(N_index_js, 120, Text(120, 10, {}))
        ELSE File(NumberToString(i) \o S_dot_json, 10, Manifest(10, <<>>, <<>>))]

MaxChain == 9

N_dot_gitignore == <<".", "g", "i", "t", "i", "g", "n", "o", "r", "e">>
N_node_modules == <<"n", "o", "d", "e", "_", "m", "o", "d", "u", "l", "e", "s">>
N_dist == <<"d", "i", "s", "t">>
N_loop == <<"l", "o", "o", "p">>
N_private == <<"p", "r", "i", "v", "a", "t", "e">>
N_gone_js == <<"g", "o", "n", "e", ".", "j", "s">>

\* A symbolic link (to the directory that holds it, say): its Dirent answers
\* false to isDirectory() and to isFile().
Symlink(n) == [name |-> n, kind |-> "symlink", size |-> 0, content |-> Text(0, 1, {}), children |-> <<>>]

\* A directory readdir throws on.
LockedDir(n) == [name |-> n, kind |-> "lockedDir", size |-> 0, content |-> Text(0, 1, {}), children |-> <<>>]

\* A file removed between readdir and stat.
Vanished(n) == [name |-> n, kind |-> "vanished", size |-> 0, content |-> Text(0, 1, {}), children |-> <<>>]

\* The entries the walker has to decide about: allow-listed dotfiles,
\* ignored directories with files in them, a link, a directory and a file
\* that cannot be read.
WalkPool ==
    { File(N_dot_env, 15, Text(15, 2, {})),
      File(N_dot_gitignore, 20, Text(20, 3, {})),
      File(N_dot_gitattributes, 12, Text(12, 2, {})),
      GitDir,
      Dir(N_node_modules, <<File(N_index_js, 120, Text(120, 10, {}))>>),
      Dir(N_dist, <<File(N_main_py, 90, Text(90, 7, {}))>>),
      Dir(N_src, <<File(N_util_py, 50, Text(50, 4, {})), Symlink(N_loop)>>),
      Symlink(N_loop),
      LockedDir(N_private),
      Vanished(N_gone_js),
      File(N_index_js, 120, Text(120, 10, {})) }

\* A chain of n directories below the root, with a file at every level.
RECURSIVE Chain(_)
Chain(n) ==
    IF n = 0 THEN <<File(N_index_js, 120, Text(120, 10, {}))>>
    ELSE <<File(N_index_js, 120, Text(120, 10, {})), Dir(N_src, Chain(n - 1))>>

\* The directories of one or two entries of WalkPool, and the chains around
\* the depth limit.
WalkTrees ==
    {t \in UNION {[1..n -> WalkPool] : n \in 1..2} :
        \A i, j \in 1..Len(t) : i < j => t[i].name # t[j].name}
    \cup {Chain(n) : n \in (MaxDepth - 2)..MaxChain}

N_schema_graphql == <<"s", "c", "h", "e", "m", "a", ".", "g", "r", "a", "p", "h", "q", "l">>
N_swagger_json == <<"s", "w", "a", "g", "g", "e", "r", ".", "j", "s", "o", "n">>

\* API description files below, one byte below and at the size ceiling of
\* findApiSpecs.
SpecPool ==
    { File(N_openapi_yaml, 300, Text(300, 12, {"openapi:"})),
      File(N_openapi_yaml, SpecSizeCeiling, Text(SpecSizeCeiling, 12, {"openapi:"})),
      File(N_swagger_json, SpecSizeCeiling - 1, Text(SpecSizeCeiling - 1, 12, {"swagger:"})),
      File(N_schema_graphql, 400, Text(400, 12, {"type "})),
      File(N_schema_graphql, SpecSizeCeiling, Text(SpecSizeCeiling, 12, {"type "})),
      File(N_index_js, 120, Text(120, 10, {})) }

SpecTrees ==
    {t \in UNION {[1..n -> SpecPool] : n \in 1..2} :
        \A i, j \in 1..Len(t) : i < j => t[i].name # t[j].name}

InputTrees ==
    SmallTrees \cup {ConfigHeavy(n) : n \in (MaxConfigFiles - 2)..MaxConfigs}
    \cup WalkTrees \cup SpecTrees

ExtractRepoName == <<"a", "p", "p">>

\* allFiles of performAnalysis for the directory tree.
FilesOf(t) == scanDirectory(t, ClonePath(ExtractRepoName, 0), <<>>, MaxDepth, 0)

\* The outcome of every read extractor e awaits, the directory staying as
\* it is.
ReadsOf(t, planned) == [k \in 1..Len(planned) |-> ReadIn(t, planned[k])]

AllReadsOf(t) == [e \in Readers |-> ReadsOf(t, Plan(e, FilesOf(t)))]

\* performAnalysis(repoPath, repoName) on the directory t.
performAnalysis(t) ==
    AnalysisResult(ExtractRepoName, CloneDirName(ExtractRepoName, 0), FilesOf(t), AllReadsOf(t), 0)

InitExtract ==
    /\ AnalyzerIdle
    /\ RegistryIdle
    /\ tree \in InputTrees
    /\ facet = "none"
    /\ value = NullValue

\* performAnalysis is called on the directory.
ApplyAnalysis ==
    /\ facet = "none"
    /\ facet' = "analysis"
    /\ value' = performAnalysis(tree)
    /\ UNCHANGED <<tree, vars, registryVars>>

\* analyzeLanguages(allFiles) is called.
ApplyLanguages ==
    /\ facet = "none"
    /\ facet' = "languages"
    /\ value' = analyzeLanguages(FilesOf(tree))
    /\ UNCHANGED <<tree, vars, registryVars>>

\* findConfigFiles(allFiles) is called.
ApplyConfigFiles ==
    /\ facet = "none"
    /\ facet' = "configFiles"
    /\ value' = findConfigFiles(FilesOf(tree))
    /\ UNCHANGED <<tree, vars, registryVars>>

\* findAndReadReadme(allFiles, repoPath) is called and its read completes.
ApplyReadme ==
    /\ facet = "none"
    /\ facet' = "readme"
    /\ value' = findAndReadReadme(FilesOf(tree), ReadsOf(tree, ReadmePlan(FilesOf(tree))))
    /\ UNCHANGED <<tree, vars, registryVars>>

\* scanDirectory(repoPath) is called.
ApplyWalk ==
    /\ facet = "none"
    /\ facet' = "files"
    /\ value' = FilesOf(tree)
    /\ UNCHANGED <<tree, vars, registryVars>>

\* findApiSpecs(allFiles, repoPath) is called and its reads complete.
ApplyApiSpecs ==
    /\ facet = "none"
    /\ facet' = "apiSpecs"
    /\ value' = findApiSpecs(FilesOf(tree), ReadsOf(tree, ApiSpecsPlan(FilesOf(tree))))
    /\ UNCHANGED <<tree, vars, registryVars>>

NextExtract ==
    \/ ApplyAnalysis
    \/ ApplyApiSpecs
    \/ ApplyWalk
    \/ ApplyLanguages
    \/ ApplyConfigFiles
    \/ ApplyReadme

SpecExtract == InitExtract /\ [][NextExtract]_allVars

(***************************************************************************)
(* Properties of the extractors.                                           *)
(***************************************************************************)
\* The root package.json of directory t is read and JSON.parse throws on it.
MalformedManifest(t) ==
    /\ PackageJsonFile(FilesOf(t)) # <<>>
    /\ ReadIn(t, PackageJsonFile(FilesOf(t))[1]).ok
    /\ ReadIn(t, PackageJsonFile(FilesOf(t))[1]).content.json.kind = "SyntaxError"

\* Directory t with its package.json replaced by a well-formed manifest of
\* the same size that declares no dependencies.
WithEmptyManifest(t) ==
    [i \in 1..Len(t) |->
        IF t[i].name = N_package_json /\ t[i].kind = "file"
        THEN File(N_package_json, t[i].size, Manifest(t[i].size, <<>>, <<>>))
        ELSE t[i]]

\* Every facet but dependencies is the same in analyses a and b.
SameOtherFacets(a, b) ==
    /\ DOMAIN a = DOMAIN b
    /\ \A f \in DOMAIN a \ {"dependencies"} : a[f] = b[f]

\* The dependencies facet a readable requirements.txt alone gives.
FromRequirementsOnly(t) ==
    LET req == RequirementsFile(FilesOf(t))
    IN  IF req # <<>> /\ ReadIn(t, req[1]).ok
        THEN LET pythonDeps == PythonDeps(ReadIn(t, req[1]).content.lines)
             IN  [production |-> pythonDeps, development |-> <<>>,
                  total |-> Len(pythonDeps), packageManager |-> "pip"]
        ELSE NoDependencies

\* C11, as stated: with a malformed root package.json the analysis is
\* returned, dependencies has no production and no development entries and
\* total 0, and every other facet is what it is for the same file list with
\* a well-formed manifest that declares no dependencies.
C11_Original ==
    (facet = "analysis" /\ MalformedManifest(tree)) =>
        /\ value.dependencies.production = <<>>
        /\ value.dependencies.development = <<>>
        /\ value.dependencies.total = 0
        /\ SameOtherFacets(value, performAnalysis(WithEmptyManifest(tree)))

\* C11, amended: with a malformed root package.json the analysis is
\* returned and package.json contributes nothing to dependencies, which is
\* the default value (no entries, total 0, no package manager) unless a
\* requirements.txt is read, whose entries it then holds with 'pip'; every
\* other facet is what it is for the same file list with a well-formed
\* manifest that declares no dependencies.
C11_MalformedManifestIsolated ==
    (facet = "analysis" /\ MalformedManifest(tree)) =>
        /\ value.dependencies = FromRequirementsOnly(tree)
        /\ SameOtherFacets(value, performAnalysis(WithEmptyManifest(tree)))

\* A malformed package.json next to source files has been analysed.
C11_Witness ==
    /\ facet = "analysis"
    /\ MalformedManifest(tree)
    /\ RequirementsFile(FilesOf(tree)) = <<>>
    /\ value.dependencies = NoDependencies
    /\ value.languages # <<>>

\* The positions in the file list whose extension maps to language l.
FilesOfLanguage(fs, l) ==
    {k \in 1..Len(fs) : HasLanguage(fs[k].extension) /\ LanguageOf(fs[k].extension) = l}

\* The position at which language l is first encountered in the file list.
FirstSeen(fs, l) ==
    CHOOSE k \in FilesOfLanguage(fs, l) : \A j \in FilesOfLanguage(fs, l) : k <= j

\* C12: the languages facet lists every language of the file list once,
\* ordered by fileCount descending; two languages of equal count appear in
\* the order in which they were first encountered in the file list; each
\* fileCount is the number of files whose extension maps to the language.
C12_LanguagesOrdered ==
    facet = "languages" =>
        LET fs == FilesOf(tree)
        IN  /\ \A i \in 1..Len(value) :
                   /\ FilesOfLanguage(fs, value[i].language) # {}
                   /\ value[i].fileCount = Cardinality(FilesOfLanguage(fs, value[i].language))
            /\ \A k \in 1..Len(fs) :
                   HasLanguage(fs[k].extension) =>
                       \E i \in 1..Len(value) : value[i].language = LanguageOf(fs[k].extension)
            /\ \A i, j \in 1..Len(value) :
                   i < j =>
                       /\ value[i].language # value[j].language
                       /\ value[i].fileCount >= value[j].fileCount
                       /\ value[i].fileCount = value[j].fileCount =>
                              FirstSeen(fs, value[i].language) < FirstSeen(fs, value[j].language)

\* Three languages: the one met last has the most files, the other two tie.
C12_Witness ==
    /\ facet = "languages"
    /\ Len(value) = 3
    /\ value[1].fileCount > value[2].fileCount
    /\ value[2].fileCount = value[3].fileCount
    /\ FirstSeen(FilesOf(tree), value[1].language) > FirstSeen(FilesOf(tree), value[2].language)

\* The positions of the config-like files in the file list, in the order of
\* the walk.
ConfigPositions(fs) == {k \in 1..Len(fs) : IsConfigFile(fs[k])}

\* The position in the file list of the n-th config-like file.
RECURSIVE NthConfig(_, _)
NthConfig(fs, n) ==
    LET first == CHOOSE k \in ConfigPositions(fs) : \A j \in ConfigPositions(fs) : k <= j
    IN  IF n = 1 THEN first
        ELSE first + NthConfig(SubSeq(fs, first + 1, Len(fs)), n - 1)

\* C13: with more than 20 config-like files configFiles has exactly 20
\* entries, the first 20 matching files in the order of the walk; with at
\* most 20 it holds all of them in that order.
C13_ConfigFilesCapped ==
    facet = "configFiles" =>
        LET fs == FilesOf(tree)
            n  == Cardinality(ConfigPositions(fs))
        IN  /\ Len(value) = IF n > 20 THEN 20 ELSE n
            /\ \A i \in 1..Len(value) : value[i] = fs[NthConfig(fs, i)].path

\* More config-like files than the cap were walked.
C13_Witness ==
    /\ facet = "configFiles"
    /\ Cardinality(ConfigPositions(FilesOf(tree))) > 20
    /\ Len(value) = 20
    /\ \E k \in 1..20 : ~IsConfigFile(FilesOf(tree)[k])

\* The root README of directory t has been read by findAndReadReadme.
ReadmeRead(t) ==
    /\ ReadmeFile(FilesOf(t)) # <<>>
    /\ ReadIn(t, ReadmeFile(FilesOf(t))[1]).ok

\* content.length of the root README of directory t.
ReadmeLength(t) == ReadIn(t, ReadmeFile(FilesOf(t))[1]).content.length

\* The readme facet v holds the first n characters of the README of t.
HoldsPrefix(v, t, n) ==
    /\ v.content.prefixOf = ReadmeFile(FilesOf(t))[1].path
    /\ v.content.length = n

MaxId == 2

MaxRequests == 3

\* The ids requests are made for.
Ids == {NumberToString(n) : n \in 1..MaxId}

\* The requests in flight at one time.
Slots == {1, 2}

URL_doc_hub ==
    <<"h", "t", "t", "p", "s", ":", "/", "/", "g", "i", "t", "h", "u", "b", ".", "c", "o", "m",
      "/", "a", "c", "m", "e", "/", "D", "o", "c", ".", "H", "u", "b", ".", "g", "i", "t">>

S_dot_git == <<".", "g", "i", "t">>
S_Repository == <<"R", "e", "p", "o", "s", "i", "t", "o", "r", "y">>
S_dash == <<"-">>
S_dot_md == <<".", "m", "d">>

\* The characters /[^a-z0-9]/gi does not match.
Alphanumeric ==
    { "a", "b", "c", "d", "e", "f", "g", "h", "i", "j", "k", "l", "m",
      "n", "o", "p", "q", "r", "s", "t", "u", "v", "w", "x", "y", "z",
      "A", "B", "C", "D", "E", "F", "G", "H", "I", "J", "K", "L", "M",
      "N", "O", "P", "Q", "R", "S", "T", "U", "V", "W", "X", "Y", "Z",
      "0", "1", "2", "3", "4", "5", "6", "7", "8", "9" }

\* s.replace(pattern, "") for a string pattern: the first occurrence goes.
RemoveFirst(s, pattern) ==
    LET hits == {i \in 1..(Len(s) - Len(pattern) + 1) : SubSeq(s, i, i + Len(pattern) - 1) = pattern}
    IN  IF hits = {} THEN s
        ELSE LET i == CHOOSE h \in hits : \A j \in hits : h <= j
             IN  SubSeq(s, 1, i - 1) \o SubSeq(s, i + Len(pattern), Len(s))

\* repoUrl.split("/").pop()?.replace(".git", "") || "Repository"
RepoNameOfUrl(repoUrl) ==
    LET parts == Split(repoUrl, "/")
        name  == RemoveFirst(parts[Len(parts)], S_dot_git)
    IN  IF name = <<>> THEN S_Repository ELSE name

\* `${repoName.replace(/[^a-z0-9]/gi, '-').toLowerCase()}-${repoId}.md`
DocFilename(repoId, repoName) ==
    ToLowerCase([i \in 1..Len(repoName) |-> IF repoName[i] \in Alphanumeric THEN repoName[i] ELSE "-"])
        \o S_dash \o repoId \o S_dot_md

\* parseInt(s) || 0 for a string s.
RECURSIVE ParseIntOrZero(_)
ParseIntOrZero(s) ==
    LET digits == {n \in 0..9 : s # <<>> /\ Digit(n) = s[Len(s)]}
    IN  IF s = <<>> THEN 0
        ELSE IF \A i \in 1..Len(s) : \E n \in 0..9 : Digit(n) = s[i]
        THEN 10 * ParseIntOrZero(SubSeq(s, 1, Len(s) - 1)) + (CHOOSE n \in digits : TRUE)
        ELSE ParseIntOrZero(SubSeq(s, 1, Len(s) - 1))

\* Math.max(0, ...numbers)
MaxOf(numbers) == CHOOSE m \in numbers \cup {0} : \A n \in numbers \cup {0} : n <= m

\* A repository record without a documentationFile property.
NoFile == <<>>

Repository(id, name, status, hasDocumentation, documentationFile) ==
    [id |-> id, name |-> name, status |-> status, hasDocumentation |-> hasDocumentation,
     documentationFile |-> documentationFile]

\* The first record initializeStorage writes when the registry file does
\* not exist.
DefaultRepository == Repository(<<"1">>, "example-docs-cli", "up-to-date", TRUE, NoFile)

\* The initial value of generatedDocs.
DefaultDocs == [id \in {<<"1">>, <<"2">>, <<"3">>} |-> "sample"]

\* Variant: the new id is the number of records plus one.
NewIdByCount(repositories) == NumberToString(Len(repositories) + 1)

\* const newId = String(Math.max(0, ...repositories.map(r => parseInt(r.id) || 0)) + 1)
NewId(repositories) ==
    NumberToString(MaxOf({ParseIntOrZero(repositories[i].id) : i \in 1..Len(repositories)}) + 1)

\* newRepo of addRepository for the argument POST /api/repositories passes
\* (status "generating", no hasDocumentation).
NewRepo(name, newId) == Repository(newId, name, "generating", FALSE, NoFile)

\* repositories.findIndex(repo => repo.id === id), 0 for -1.
FindIndex(repositories, id) ==
    LET hits == {i \in 1..Len(repositories) : repositories[i].id = id}
    IN  IF hits = {} THEN 0 ELSE CHOOSE i \in hits : \A j \in hits : i <= j

\* { ...repositories[index], ...updates, id }
Merged(repo, updates, id) ==
    [f \in DOMAIN repo |->
        IF f = "id" THEN id ELSE IF f \in DOMAIN updates THEN updates[f] ELSE repo[f]]

\* The array updateRepository writes, for an id it found.
Updated(repositories, id, updates) ==
    [repositories EXCEPT ![FindIndex(repositories, id)] = Merged(@, updates, id)]

\* repositories.filter(repo => repo.id !== id)
Without(repositories, id) ==
    FilterSeq(repositories, {r \in Range(repositories) : r.id # id})

\* Variant: updateRepositoryStatus passes the status only.
StatusOnly(status, flag) == [status |-> status]

\* The updates of updateRepositoryStatus(id, status, hasDocumentation = null);
\* flag is <<>> for null and <<b>> for the boolean b.
StatusUpdates(status, flag) ==
    IF flag # <<>> THEN [status |-> status, hasDocumentation |-> flag[1]]
    ELSE [status |-> status]

\* Variant: the file name is returned without the file being written.
WriteSkipped(fileSystem, filename, content) == fileSystem

\* fs.writeFile(filePath, documentation, 'utf8')
WriteFile(fileSystem, filename, content) ==
    [f \in DOMAIN fileSystem \cup {filename} |-> IF f = filename THEN content ELSE fileSystem[f]]

\* generatedDocs[id] = documentation
SetDocumentation(docs, id, documentation) ==
    [k \in DOMAIN docs \cup {id} |-> IF k = id THEN documentation ELSE docs[k]]

\* hasDocumentation(id): !!generatedDocs[id]
HasDocumentation(docs, id) == id \in DOMAIN docs /\ docs[id] # ""

NoResponse == [status |-> 0, source |-> "", documentation |-> ""]

\* The response of GET /api/documentation/{id} with a file's content.
FromFile(content) == [status |-> 200, source |-> "file", documentation |-> content]

\* Variant: the fallback answers from memory whenever the key exists.
FromMemoryIfKey(docs, id) ==
    IF id \in DOMAIN docs
    THEN [status |-> 200, source |-> "memory", documentation |-> docs[id]]
    ELSE [status |-> 404, source |-> "", documentation |-> ""]

\* The fallback of GET /api/documentation/{id}: getDocumentation(id), and
\* 404 for a falsy value.
FromMemory(docs, id) ==
    IF HasDocumentation(docs, id)
    THEN [status |-> 200, source |-> "memory", documentation |-> docs[id]]
    ELSE [status |-> 404, source |-> "", documentation |-> ""]

\* A slot without a request.
NoRequest ==
    [op |-> "none", pc |-> "idle", id |-> <<>>, name |-> <<>>, pending |-> <<>>,
     gen |-> "none", file |-> NoFile, readOk |-> FALSE, response |-> NoResponse]

\* Slot p takes a new request: nothing runs in it, and the slots below it
\* are in use.
Free(p) ==
    /\ requests[p].pc \in {"idle", "responded"}
    /\ \A q \in Slots : q < p => requests[q].pc \notin {"idle", "responded"}

\* The registry file holds the first default repository, generatedDocs its
\* initial value; no request has been made.
InitRegistry ==
    /\ AnalyzerIdle
    /\ ExtractIdle
    /\ repos = <<DefaultRepository>>
    /\ docFiles = <<>>
    /\ memDocs = DefaultDocs
    /\ timers = {}
    /\ requests = [p \in Slots |-> NoRequest]
    /\ served = 0

\* One more request is accepted.
Accept ==
    /\ served < MaxRequests
    /\ served' = served + 1

\* The request slot p holds from now on.
Becomes(p, request) == requests' = [requests EXCEPT ![p] = request]

\* POST /api/repositories: addRepository reads the registry, computes the
\* new id and pushes newRepo; it then awaits fs.writeFile.
AddRead(p, name) ==
    /\ Free(p)
    /\ Accept
    /\ ParseIntOrZero(NewId(repos)) <= MaxId
    /\ Becomes(p, [NoRequest EXCEPT !.op = "add", !.pc = "addWrite", !.id = NewId(repos),
                                    !.pending = Append(repos, NewRepo(name, NewId(repos)))])
    /\ UNCHANGED <<repos, docFiles, memDocs, timers>>
    /\ UNCHANGED <<vars, extractVars>>

\* fs.writeFile of addRepository completes; POST schedules the delayed
\* status update with setTimeout and responds.
AddWrite(p) ==
    /\ requests[p].pc = "addWrite"
    /\ repos' = requests[p].pending
    /\ timers' = timers \cup {requests[p].id}
    /\ Becomes(p, NoRequest)
    /\ UNCHANGED <<docFiles, memDocs>>
    /\ UNCHANGED <<vars, extractVars, served>>

\* The setTimeout callback of POST runs: updateRepositoryStatus(id,
\* "up-to-date", true) reads the registry; updateRepository throws for an
\* id it does not find, which the callback catches and logs.
TimerRead(p, id) ==
    /\ Free(p)
    /\ id \in timers
    /\ timers' = timers \ {id}
    /\ IF FindIndex(repos, id) = 0
       THEN Becomes(p, NoRequest)
       ELSE Becomes(p, [NoRequest EXCEPT !.op = "timer", !.pc = "timerWrite", !.id = id,
                           !.pending = Updated(repos, id, StatusUpdates("up-to-date", <<TRUE>>))])
    /\ UNCHANGED <<repos, docFiles, memDocs>>
    /\ UNCHANGED <<vars, extractVars, served>>

\* fs.writeFile of the callback's updateRepository completes, and the
\* callback stores the sample documentation in memory.
TimerWrite(p) ==
    /\ requests[p].pc = "timerWrite"
    /\ repos' = requests[p].pending
    /\ memDocs' = SetDocumentation(memDocs, requests[p].id, "added")
    /\ Becomes(p, NoRequest)
    /\ UNCHANGED <<docFiles, timers>>
    /\ UNCHANGED <<vars, extractVars, served>>

\* PUT /api/repositories/[id] with a name: updateRepository reads the
\* registry; 404 for an id it does not find.
PutRead(p, id, name) ==
    /\ Free(p)
    /\ Accept
    /\ IF FindIndex(repos, id) = 0
       THEN Becomes(p, NoRequest)
       ELSE Becomes(p, [NoRequest EXCEPT !.op = "put", !.pc = "putWrite", !.id = id,
                           !.pending = Updated(repos, id, [name |-> name])])
    /\ UNCHANGED <<repos, docFiles, memDocs, timers>>
    /\ UNCHANGED <<vars, extractVars>>

PutWrite(p) ==
    /\ requests[p].pc = "putWrite"
    /\ repos' = requests[p].pending
    /\ Becomes(p, NoRequest)
    /\ UNCHANGED <<docFiles, memDocs, timers>>
    /\ UNCHANGED <<vars, extractVars, served>>

\* DELETE /api/repositories/[id]: deleteRepository reads the registry and
\* filters; 404 when nothing was removed.
DeleteRead(p, id) ==
    /\ Free(p)
    /\ Accept
    /\ IF Len(Without(repos, id)) = Len(repos)
       THEN Becomes(p, NoRequest)
       ELSE Becomes(p, [NoRequest EXCEPT !.op = "delete", !.pc = "deleteWrite", !.id = id,
                           !.pending = Without(repos, id)])
    /\ UNCHANGED <<repos, docFiles, memDocs, timers>>
    /\ UNCHANGED <<vars, extractVars>>

\* fs.writeFile of deleteRepository completes and DELETE responds.
DeleteWrite(p) ==
    /\ requests[p].pc = "deleteWrite"
    /\ repos' = requests[p].pending
    /\ Becomes(p, NoRequest)
    /\ UNCHANGED <<docFiles, memDocs, timers>>
    /\ UNCHANGED <<vars, extractVars, served>>

\* POST /api/generate with repoUrl and repoId: generateDocumentation awaits
\* analyzeRepository and generateWithLLM, which touch neither the registry
\* nor the stores.  how is "llm" (the LLM answered), "template" (the LLM
\* call failed and the catch block of generateWithLLM returned its
\* template), "analysisThrew" (analyzeRepository threw) or "templateThrew"
\* (the LLM call failed and building the template threw).
GenerateStart(p, id, how) ==
    /\ Free(p)
    /\ Accept
    /\ Becomes(p, [NoRequest EXCEPT !.op = "generate", !.id = id, !.gen = how,
                       !.name = RepoNameOfUrl(URL_doc_hub),
                       !.pc = IF how \in {"llm", "template"} THEN "genSave" ELSE "genErrRead"])
    /\ UNCHANGED <<repos, docFiles, memDocs, timers>>
    /\ UNCHANGED <<vars, extractVars>>

\* saveDocumentation writes the documentation file and returns its name,
\* or fs.writeFile throws (the directory is missing or not writable):
\* saveDocumentation throws on into the catch block of
\* generateDocumentation, and no file name was returned.
GenerateSave(p) ==
    /\ requests[p].pc = "genSave"
    /\ \E written \in BOOLEAN :
          LET filename == DocFilename(requests[p].id, requests[p].name)
          IN  IF written
              THEN /\ docFiles' = WriteFile(docFiles, filename, requests[p].gen)
                   /\ Becomes(p, [requests[p] EXCEPT !.pc = "genRead", !.file = filename])
              ELSE /\ docFiles' = docFiles
                   /\ Becomes(p, [requests[p] EXCEPT !.pc = "genErrRead"])
    /\ UNCHANGED <<repos, memDocs, timers>>
    /\ UNCHANGED <<vars, extractVars, served>>

\* updateRepository(repoId, {documentationFile, hasDocumentation: true,
\* status: 'up-to-date'}) reads the registry; for an id it does not find it
\* throws into the catch block of generateDocumentation.
GenerateRead(p) ==
    /\ requests[p].pc = "genRead"
    /\ IF FindIndex(repos, requests[p].id) = 0
       THEN Becomes(p, [requests[p] EXCEPT !.pc = "genErrRead"])
       ELSE Becomes(p, [requests[p] EXCEPT !.pc = "genWrite",
                           !.pending = Updated(repos, requests[p].id,
                                               [documentationFile |-> requests[p].file,
                                                hasDocumentation |-> TRUE,
                                                status |-> "up-to-date"])])
    /\ UNCHANGED <<repos, docFiles, memDocs, timers>>
    /\ UNCHANGED <<vars, extractVars, served>>

\* fs.writeFile of that updateRepository completes; the documentation is
\* stored in memory under the generation id, which is no repository id, and
\* returned.
GenerateWrite(p) ==
    /\ requests[p].pc = "genWrite"
    /\ repos' = requests[p].pending
    /\ Becomes(p, NoRequest)
    /\ UNCHANGED <<docFiles, memDocs, timers>>
    /\ UNCHANGED <<vars, extractVars, served>>

\* The catch block of generateDocumentation: updateRepository(repoId,
\* {status: 'error', hasDocumentation: false}) reads the registry; its
\* failure is caught and logged, and the error is thrown on.
GenerateErrorRead(p) ==
    /\ requests[p].pc = "genErrRead"
    /\ IF FindIndex(repos, requests[p].id) = 0
       THEN Becomes(p, NoRequest)
       ELSE Becomes(p, [requests[p] EXCEPT !.pc = "genErrWrite",
                           !.pending = Updated(repos, requests[p].id,
                                               [status |-> "error",
                                                hasDocumentation |-> FALSE])])
    /\ UNCHANGED <<repos, docFiles, memDocs, timers>>
    /\ UNCHANGED <<vars, extractVars, served>>

GenerateErrorWrite(p) ==
    /\ requests[p].pc = "genErrWrite"
    /\ repos' = requests[p].pending
    /\ Becomes(p, NoRequest)
    /\ UNCHANGED <<docFiles, memDocs, timers>>
    /\ UNCHANGED <<vars, extractVars, served>>

\* GET /api/documentation/{id}: getRepositoryById reads the registry.  With
\* a documentationFile the handler awaits readDocumentation; without one it
\* answers from memory at once.
GetDocRepo(p, id) ==
    /\ Free(p)
    /\ Accept
    /\ LET i == FindIndex(repos, id)
       IN  IF i # 0 /\ repos[i].documentationFile # NoFile
           THEN Becomes(p, [NoRequest EXCEPT !.op = "getDoc", !.pc = "getRead", !.id = id,
                               !.file = repos[i].documentationFile])
           ELSE Becomes(p, [NoRequest EXCEPT !.op = "getDoc", !.pc = "responded", !.id = id,
                               !.response = FromMemory(memDocs, id)])
    /\ UNCHANGED <<repos, docFiles, memDocs, timers>>
    /\ UNCHANGED <<vars, extractVars>>

\* readDocumentation settles: the content of the file, or fs.readFile
\* threw (always for a missing file) and the handler falls back to memory.
GetDocRead(p) ==
    /\ requests[p].pc = "getRead"
    /\ \E ok \in BOOLEAN :
          /\ ok => requests[p].file \in DOMAIN docFiles
          /\ Becomes(p, [requests[p] EXCEPT
                            !.pc = "responded",
                            !.readOk = ok,
                            !.response = IF ok THEN FromFile(docFiles[requests[p].file])
                                         ELSE FromMemory(memDocs, requests[p].id)])
    /\ UNCHANGED <<repos, docFiles, memDocs, timers>>
    /\ UNCHANGED <<vars, extractVars, served>>

\* POST /api/documentation/{id}: setDocumentation(id, body.documentation).
PostDoc(id, documentation) ==
    /\ Accept
    /\ memDocs' = SetDocumentation(memDocs, id, documentation)
    /\ UNCHANGED <<repos, docFiles, timers, requests>>
    /\ UNCHANGED <<vars, extractVars>>

NextRegistry ==
    \/ \E p \in Slots : AddRead(p, "web")
    \/ \E p \in Slots : AddWrite(p)
    \/ \E p \in Slots, id \in Ids : TimerRead(p, id)
    \/ \E p \in Slots : TimerWrite(p)
    \/ \E p \in Slots, id \in Ids : PutRead(p, id, "svc")
    \/ \E p \in Slots : PutWrite(p)
    \/ \E p \in Slots, id \in Ids : DeleteRead(p, id)
    \/ \E p \in Slots : DeleteWrite(p)
    \/ \E p \in Slots, id \in Ids, how \in {"llm", "template", "analysisThrew", "templateThrew"} :
          GenerateStart(p, id, how)
    \/ \E p \in Slots : GenerateSave(p)
    \/ \E p \in Slots : GenerateRead(p)
    \/ \E p \in Slots : GenerateWrite(p)
    \/ \E p \in Slots : GenerateErrorRead(p)
    \/ \E p \in Slots : GenerateErrorWrite(p)
    \/ \E p \in Slots, id \in Ids : GetDocRepo(p, id)
    \/ \E p \in Slots : GetDocRead(p)
    \/ \E id \in Ids, documentation \in {"", "posted"} : PostDoc(id, documentation)

SpecRegistry == InitRegistry /\ [][NextRegistry]_allVars

(***************************************************************************)
(* Properties of the registry and the documentation store.                 *)
(***************************************************************************)
\* The status changes docs/STATUS_SYSTEM.md documents.
DocumentedTransitions ==
    { <<"generating", "up-to-date">>, <<"generating", "error">>,
      <<"up-to-date", "generating">>, <<"error", "generating">> }

\* The request of slot p completes a write of the registry in this step.
Writes(p) ==
    /\ requests[p].pc \in {"addWrite", "timerWrite", "putWrite", "deleteWrite",
                            "genWrite", "genErrWrite"}
    /\ requests'[p] # requests[p]

\* C15: the status of a registered repository changes along the documented
\* transitions only (generating -> up-to-date, generating -> error,
\* up-to-date -> generating, error -> generating): a generation sets
\* 'generating' before an 'up-to-date' or 'error' outcome is recorded.
C15_DocumentedTransitionsOnly ==
    [][\A i \in 1..Len(repos), j \in 1..Len(repos') :
          (repos[i].id = repos'[j].id /\ repos[i].status # repos'[j].status) =>
              <<repos[i].status, repos'[j].status>> \in DocumentedTransitions]_allVars

\* C16: a generation for a registered repository whose LLM call failed
\* records the status 'error' for it, never 'up-to-date'.
C16_LLMFailureRecordsError ==
    [][\A p \in Slots :
          (Writes(p) /\ requests[p].op = "generate"
                     /\ requests[p].gen \in {"template", "templateThrew"}) =>
              \A j \in 1..Len(repos') :
                  repos'[j].id = requests[p].id => repos'[j].status = "error"]_allVars

\* C17: every repository record of the registry has hasDocumentation = true
\* exactly when its status is 'up-to-date' (and false when it is
\* 'generating' or 'error').
C17_FlagFollowsStatus ==
    \A i \in 1..Len(repos) :
        /\ repos[i].status \in {"generating", "up-to-date", "error"}
        /\ repos[i].hasDocumentation = (repos[i].status = "up-to-date")

\* The registry holds a repository whose regeneration failed after a
\* documentation file had been linked, next to one that is up to date or
\* still generating.
C17_Witness ==
    /\ \E i \in 1..Len(repos) :
          /\ repos[i].status = "error"
          /\ repos[i].documentationFile # NoFile
          /\ ~repos[i].hasDocumentation
    /\ \E j \in 1..Len(repos) : repos[j].status # "error"

\* C18: when DELETE /api/repositories/[id] completes for a repository with
\* a linked documentation file, the documentation directory no longer holds
\* that file.
C18_DeleteRemovesLinkedFile ==
    [][\A p \in Slots :
          (Writes(p) /\ requests[p].op = "delete") =>
              \A i \in 1..Len(repos) :
                  (/\ repos[i].id = requests[p].id
                   /\ repos[i].documentationFile # NoFile
                   /\ FindIndex(repos', requests[p].id) = 0) =>
                      repos[i].documentationFile \notin DOMAIN docFiles']_allVars

\* The answer GET /api/documentation/{id} gives from memory, or 404 when
\* memory holds no documentation under the id.
AnswersFromMemory(response, id) ==
    IF id \in DOMAIN memDocs /\ memDocs[id] # ""
    THEN response = [status |-> 200, source |-> "memory", documentation |-> memDocs[id]]
    ELSE response.status = 404

\* C19: GET /api/documentation/{id} reads the documentation file the
\* repository links and answers with its content (source 'file') when the
\* read succeeds; without a linked file, or when the read fails, it answers
\* with the documentation memory holds under the id (source 'memory'), and
\* with 404 when memory holds none.
C19_FileThenMemoryThen404 ==
    [][\A p \in Slots :
          /\ (requests[p].pc # "getRead" /\ requests'[p].pc = "getRead") =>
                 /\ FindIndex(repos, requests'[p].id) # 0
                 /\ requests'[p].file = repos[FindIndex(repos, requests'[p].id)].documentationFile
                 /\ requests'[p].file # NoFile
          /\ (requests[p].pc # "getRead" /\ requests'[p] # requests[p]
                 /\ requests'[p].op = "getDoc" /\ requests'[p].pc = "responded") =>
                 /\ \/ FindIndex(repos, requests'[p].id) = 0
                    \/ repos[FindIndex(repos, requests'[p].id)].documentationFile = NoFile
                 /\ AnswersFromMemory(requests'[p].response, requests'[p].id)
          /\ (requests[p].pc = "getRead" /\ requests'[p].pc = "responded") =>
                 /\ requests[p].file \notin DOMAIN docFiles => ~requests'[p].readOk
                 /\ IF requests'[p].readOk
                    THEN requests'[p].response =
                             [status |-> 200, source |-> "file",
                              documentation |-> docFiles[requests[p].file]]
                    ELSE AnswersFromMemory(requests'[p].response, requests[p].id)]_allVars

\* A request whose linked file could not be read was answered from memory.
C19_Witness ==
    \E p \in Slots :
        /\ requests[p].op = "getDoc"
        /\ requests[p].pc = "responded"
        /\ requests[p].file # NoFile
        /\ ~requests[p].readOk
        /\ requests[p].response.source = "memory"

\* C20: no two repository records of the registry share an id.
C20_UniqueIds ==
    \A i, j \in 1..Len(repos) : i # j => repos[i].id # repos[j].id

\* Two interleaved calls of addRepository computed the same id: one has
\* written its record, the other is about to write.
C20_Witness ==
    \E p \in Slots :
        /\ requests[p].pc = "addWrite"
        /\ FindIndex(repos, requests[p].id) # 0
        /\ Len(repos) = 2


(***************************************************************************)
(* Properties of the walker.                                               *)
(***************************************************************************)
\* The names on the allow-list of shouldSkipFile.
AllowedNames == {AllowedDotfiles[i] : i \in 1..Len(AllowedDotfiles)}

\* The files of the root of directory t that carry an allow-listed name.
AllowedRootFiles(t) ==
    {i \in 1..Len(t) : t[i].kind = "file" /\ t[i].name \in AllowedNames}

\* The walker's output has a descriptor of the name.
Emits(fileList, name) == \E k \in 1..Len(fileList) : fileList[k].name = name

\* No emitted path runs through an ignored directory.
AvoidsIgnored(fileList) ==
    \A k \in 1..Len(fileList) :
        LET parts == Split(fileList[k].path, "/")
        IN  \A j \in 1..Len(parts) : parts[j] \notin SkipNames

\* C21: the walker emits every allow-listed dotfile of the root (.env,
\* .gitignore, ...) and emits nothing from node_modules, .git, dist, build,
\* target, coverage, __pycache__ or .next.
C21_AllowedDotfilesEmitted ==
    facet = "files" =>
        /\ \A i \in AllowedRootFiles(tree) : Emits(value, tree[i].name)
        /\ AvoidsIgnored(value)


\* The entry of directory t the emitted path leads to.
EntryAt(t, filePath) == Lookup(t, Split(filePath, "/"))

\* C22: the walk of every directory ends with a list of files; no emitted
\* file lies in a directory MaxDepth or more levels below the root, and
\* links, unreadable directories and files that cannot be examined are left
\* out without failing the walk: every emitted path leads to a regular file.
C22_WalkBoundedAndTotal ==
    facet = "files" =>
        \A k \in 1..Len(value) :
            /\ Len(Split(value[k].path, "/")) <= MaxDepth
            /\ EntryAt(tree, value[k].path).found
            /\ ~ value[k].isDirectory

C22_Witness ==
    /\ facet = "files"
    /\ tree = Chain(MaxDepth)
    /\ Len(value) = MaxDepth


(***************************************************************************)
(* Properties of the dependencies facet.                                   *)
(***************************************************************************)
\* C23: in every analysis, dependencies.total is the number of production
\* entries plus the number of development entries, whichever manifests the
\* directory holds.
C23_TotalIsSum ==
    facet = "analysis" =>
        value.dependencies.total =
            Len(value.dependencies.production) + Len(value.dependencies.development)

\* The directory t holds a manifest analyzeDependencies gets a package
\* manager from: a root package.json that parses, or a requirements.txt.
ManifestUnderstood(t) ==
    \/ PackageJsonFile(FilesOf(t)) # <<>> /\ ~MalformedManifest(t)
    \/ RequirementsFile(FilesOf(t)) # <<>>

C25_SpecsBelowCeiling ==
    facet = "apiSpecs" =>
        \A k \in 1..Len(value) : value[k].size < SpecSizeCeiling


(***************************************************************************)
(* Properties of concurrent requests on the registry.                      *)
(***************************************************************************)
\* The records the registry holds under the id: none or one.
RecordsOf(repositories, id) ==
    FilterSeq(repositories, {r \in Range(repositories) : r.id = id})

\* C26: no acknowledged registry write is lost: the record of a repository
\* stays in the registry as it was written until a request for the same
\* id writes (update or delete); a write for another repository leaves it
\* alone, whatever the interleaving.
C26_NoLostWrite ==
    [][\A id \in Ids :
          (RecordsOf(repos, id) # <<>> /\ RecordsOf(repos', id) # RecordsOf(repos, id)) =>
              \E p \in Slots : Writes(p) /\ requests[p].id = id]_allVars


\* C27: a recorded status 'error' stays until a generation for that
\* repository succeeds: only the registry write of a successful generation
\* for the id replaces 'error', never the delayed status update scheduled
\* when the repository was added.
C27_ErrorStaysUntilSuccess ==
    [][\A i \in 1..Len(repos), j \in 1..Len(repos') :
          (/\ repos[i].id = repos'[j].id
           /\ repos[i].status = "error"
           /\ repos'[j].status # "error") =>
              \E p \in Slots : /\ requests[p].pc = "genWrite"
                               /\ requests'[p] # requests[p]
                               /\ requests[p].id = repos[i].id]_allVars


\* C28: once the repository the registry starts with has been deleted, GET
\* /api/documentation/{id} for its id answers 404 as long as no repository
\* holds the id and no documentation has been stored under it since: the
\* documentation of the deleted repository is not served.
C28_DeletedAnswers404 ==
    [][\A p \in Slots :
          (/\ requests'[p] # requests[p]
           /\ requests'[p].op = "getDoc"
           /\ requests'[p].pc = "responded"
           /\ requests'[p].id = DefaultRepository.id
           /\ FindIndex(repos, DefaultRepository.id) = 0
           /\ memDocs[DefaultRepository.id] = DefaultDocs[DefaultRepository.id]) =>
              requests'[p].response.status = 404]_allVars


\* C29: every repository record that carries a documentationFile names a
\* file of the documentation directory: the file is written before its
\* name is linked, and a failed write links nothing.
C29_LinkedFileExists ==
    /\ \A i \in 1..Len(repos) :
          repos[i].documentationFile # NoFile => repos[i].documentationFile \in DOMAIN docFiles
    /\ \A p \in Slots :
          requests[p].pc \in {"genRead", "genWrite"} => requests[p].file \in DOMAIN docFiles

\* A repository is linked to its file while a generation whose file write
\* failed is about to record the error.
C29_Witness ==
    /\ \E i \in 1..Len(repos) : repos[i].documentationFile \in DOMAIN docFiles
    /\ \E p \in Slots :
          /\ requests[p].pc = "genErrWrite"
          /\ requests[p].gen = "llm"
          /\ requests[p].file = NoFile


(***************************************************************************)
(* The registry under fair scheduling: the event loop runs every callback  *)
(* whose awaited file operation has settled, and every timer that is due.  *)
(***************************************************************************)
\* The request of slot p takes its next step.
Continue(p) ==
    \/ AddWrite(p)
    \/ TimerWrite(p)
    \/ PutWrite(p)
    \/ DeleteWrite(p)
    \/ GenerateSave(p)
    \/ GenerateRead(p)
    \/ GenerateWrite(p)
    \/ GenerateErrorRead(p)
    \/ GenerateErrorWrite(p)
    \/ GetDocRead(p)

\* The timer scheduled for the id fires.
TimerFires(id) == \E p \in Slots : TimerRead(p, id)

FairRegistry ==
    /\ \A p \in Slots : WF_allVars(Continue(p))
    /\ \A id \in Ids : WF_allVars(TimerFires(id))

SpecRegistryFair == InitRegistry /\ [][NextRegistry]_allVars /\ FairRegistry

\* The registry holds a record of the id with status 'generating'.
Generating(id) ==
    \E i \in 1..Len(repos) : repos[i].id = id /\ repos[i].status = "generating"

\* C30: a repository in status 'generating' eventually is no longer in it:
\* it has become 'up-to-date' or 'error', or it is gone from the registry.
C30_GeneratingEnds ==
    \A id \in Ids : Generating(id) ~> ~Generating(id)

====
